---- MODULE Spec2Model ----
(***************************************************************************)
(* The pulse relay server (pulse-server): ServerState (the Directory of    *)
(* outbound channels and the offline queues) and the per-connection task   *)
(* handle_connection / handle_message that drives it.                      *)
(*                                                                         *)
(* A channel is named by the session that created it.  chan[c] is the      *)
(* sequence of strings successfully pushed onto channel c, rx[c] the state *)
(* of its receiving end.  A JSON text is a record whose "type" field is    *)
(* the serde tag; a parsed WsMessage is a record whose "variant" field is  *)
(* the enum variant.                                                       *)
(*                                                                         *)
(* Also modelled: the bind address selection of main, and the connection   *)
(* loop of the desktop client (WebSocketClient), whose state is the record *)
(* client.                                                                 *)
(***************************************************************************)
EXTENDS Integers, Sequences, FiniteSets, TLC

VARIABLES clients, pending, chan, rx, pc, loc, handled, call, client

vars == <<clients, pending, chan, rx, pc, loc, handled, call, client>>

(* ------------------------------ bounds --------------------------------- *)

\* User ids a Connect frame may carry, and the connections the listener
\* accepts, in the order it accepts them.
Users == {"u1", "u2"}
Accepted == <<"s1", "s2", "s3">>
Sessions == {Accepted[i] : i \in DOMAIN Accepted}

\* The connections accepted before s.
Before(s) == {Accepted[i] : i \in {j \in DOMAIN Accepted : \E k \in DOMAIN Accepted : k > j /\ Accepted[k] = s}}

\* The user id each connection's client puts in its Connect frame.
ConnectIds(s) == IF s = "s1" THEN {"u1"} ELSE {"u2"}

\* The same, for clients that may name any user or leave the user id empty.
AnyIds(s) == Users \cup {""}

\* Number of inbound text frames the sessions handle in one behaviour.
MaxFrames == 1

\* The same, where only ChatMessage frames are sent.
MaxChatFrames == 2

\* The same, in the behaviours that start with every kind of handshake.
MaxAuthFrames == 1

\* The same, in the behaviours that follow each frame to the socket.
MaxWireFrames == 1

\* The same, dropped frames included, where clients also send frames that
\* are not routed.
MaxAnyFrames == 2

\* Number of sessions that leave the read loop, and of sockets on which a
\* write fails, in one behaviour.
MaxCloses == 1
MaxWriterFailures == 1

\* Threads that call ServerState concurrently, and the number of calls and of
\* messages they issue in one behaviour of the ServerState harness; the
\* channels the harness registers, and the users it registers them under.
Callers == {"t1", "t2"}
ApiChannels == {"s1", "s2"}
ApiOnlineUsers == {"u1"}
MaxCalls == 4
MaxMessages == 3

\* Frames the clients of the call-signalling specification send.
MaxCallFrames == 2

\* Queue capacity.  The program's value is 1000 (state.rs:6); the model runs
\* the same code with a small capacity so that overflow is reached.
MAX_PENDING_MESSAGES_PER_USER == 2

(* --------------------------- wire envelope ----------------------------- *)

\* Option<i64>: None is <<>>, Some(t) is <<t>>.
None == <<>>
Some(t) == <<t>>

\* chrono::Utc::now().timestamp_millis(): the clock is not modelled.
NowMillis == 0

ParseError == [variant |-> "ParseError"]

\* The eight call-signalling variants and their tags (#[serde(rename = ...)]).
CallVariantOf ==
    [call_invite |-> "CallInvite", call_ringing |-> "CallRinging",
     call_accept |-> "CallAccept", call_reject |-> "CallReject",
     call_hangup |-> "CallHangup", rtc_offer |-> "RtcOffer",
     rtc_answer |-> "RtcAnswer", rtc_ice_candidate |-> "RtcIceCandidate"]
CallTagOf ==
    [CallInvite |-> "call_invite", CallRinging |-> "call_ringing",
     CallAccept |-> "call_accept", CallReject |-> "call_reject",
     CallHangup |-> "call_hangup", RtcOffer |-> "rtc_offer",
     RtcAnswer |-> "rtc_answer", RtcIceCandidate |-> "rtc_ice_candidate"]

\* A parser that reads every Option field as None.
OptionalFieldIgnored(text, f) == None

\* An Option<T> field of a derived Deserialize: a key that is absent parses as
\* None, like a null.
OptionalField(text, f) == IF f \in DOMAIN text THEN text[f] ELSE None

\* serde_json::from_str::<WsMessage>: the tag selects the variant; a text with
\* an unknown tag (or that is no JSON object) fails to parse.
FromStr(text) ==
    CASE text.type = "message" ->
           [variant |-> "ChatMessage", id |-> text.id, sender_id |-> text.sender_id,
            recipient_id |-> text.recipient_id]
      [] text.type = "typing" ->
           [variant |-> "Typing", chat_id |-> text.chat_id, user_id |-> text.user_id]
      [] text.type = "presence" ->
           [variant |-> "Presence", user_id |-> text.user_id,
            is_online |-> text.is_online, last_seen |-> OptionalField(text, "last_seen")]
      [] text.type = "delivery_receipt" ->
           [variant |-> "DeliveryReceipt", message_id |-> text.message_id,
            sender_id |-> text.sender_id, delivered_to |-> text.delivered_to]
      [] text.type = "read_receipt" ->
           [variant |-> "ReadReceipt", chat_id |-> text.chat_id,
            sender_id |-> text.sender_id, user_id |-> text.user_id]
      [] text.type = "profile_update" ->
           [variant |-> "ProfileUpdate", user_id |-> text.user_id, name |-> text.name,
            phone |-> OptionalField(text, "phone")]
      [] text.type \in DOMAIN CallVariantOf ->
           [variant |-> CallVariantOf[text.type], call_id |-> text.call_id,
            from_user_id |-> text.from_user_id, to_user_id |-> text.to_user_id]
      [] text.type = "connect" ->
           [variant |-> "Connect", user_id |-> text.user_id]
      [] text.type = "auth_response" ->
           [variant |-> "AuthResponse", success |-> text.success]
      [] text.type = "error" ->
           [variant |-> "Error"]
      [] OTHER -> ParseError

\* A serializer that leaves out the last_seen of a Presence.
ToJsonWithoutLastSeen(msg) ==
    CASE msg.variant = "ChatMessage" ->
           [type |-> "message", id |-> msg.id, sender_id |-> msg.sender_id,
            recipient_id |-> msg.recipient_id]
      [] msg.variant = "Typing" ->
           [type |-> "typing", chat_id |-> msg.chat_id, user_id |-> msg.user_id]
      [] msg.variant = "Presence" ->
           [type |-> "presence", user_id |-> msg.user_id,
            is_online |-> msg.is_online, last_seen |-> <<>>]
      [] msg.variant = "DeliveryReceipt" ->
           [type |-> "delivery_receipt", message_id |-> msg.message_id,
            sender_id |-> msg.sender_id, delivered_to |-> msg.delivered_to]
      [] msg.variant = "ReadReceipt" ->
           [type |-> "read_receipt", chat_id |-> msg.chat_id,
            sender_id |-> msg.sender_id, user_id |-> msg.user_id]
      [] msg.variant = "ProfileUpdate" ->
           [type |-> "profile_update", user_id |-> msg.user_id, name |-> msg.name,
            phone |-> msg.phone]
      [] msg.variant \in DOMAIN CallTagOf ->
           [type |-> CallTagOf[msg.variant], call_id |-> msg.call_id,
            from_user_id |-> msg.from_user_id, to_user_id |-> msg.to_user_id]
      [] msg.variant = "Connect" ->
           [type |-> "connect", user_id |-> msg.user_id]
      [] msg.variant = "AuthResponse" ->
           [type |-> "auth_response", success |-> msg.success]
      [] OTHER ->
           [type |-> "error"]

\* serde_json::to_string(&msg): every field is written, a None as null.
ToJson(msg) ==
    CASE msg.variant = "ChatMessage" ->
           [type |-> "message", id |-> msg.id, sender_id |-> msg.sender_id,
            recipient_id |-> msg.recipient_id]
      [] msg.variant = "Typing" ->
           [type |-> "typing", chat_id |-> msg.chat_id, user_id |-> msg.user_id]
      [] msg.variant = "Presence" ->
           [type |-> "presence", user_id |-> msg.user_id,
            is_online |-> msg.is_online, last_seen |-> msg.last_seen]
      [] msg.variant = "DeliveryReceipt" ->
           [type |-> "delivery_receipt", message_id |-> msg.message_id,
            sender_id |-> msg.sender_id, delivered_to |-> msg.delivered_to]
      [] msg.variant = "ReadReceipt" ->
           [type |-> "read_receipt", chat_id |-> msg.chat_id,
            sender_id |-> msg.sender_id, user_id |-> msg.user_id]
      [] msg.variant = "ProfileUpdate" ->
           [type |-> "profile_update", user_id |-> msg.user_id, name |-> msg.name,
            phone |-> msg.phone]
      [] msg.variant \in DOMAIN CallTagOf ->
           [type |-> CallTagOf[msg.variant], call_id |-> msg.call_id,
            from_user_id |-> msg.from_user_id, to_user_id |-> msg.to_user_id]
      [] msg.variant = "Connect" ->
           [type |-> "connect", user_id |-> msg.user_id]
      [] msg.variant = "AuthResponse" ->
           [type |-> "auth_response", success |-> msg.success]
      [] OTHER ->
           [type |-> "error"]

\* The Presence frames handle_connection synthesizes.
OnlinePresence(u) ==
    ToJson([variant |-> "Presence", user_id |-> u, is_online |-> TRUE, last_seen |-> None])

\* An offline Presence that carries no last_seen.
OfflinePresenceNoLastSeen(u) ==
    [type |-> "presence", user_id |-> u, is_online |-> FALSE, last_seen |-> None]

OfflinePresence(u) ==
    ToJson([variant |-> "Presence", user_id |-> u, is_online |-> FALSE,
              last_seen |-> Some(NowMillis)])

\* The text frames a client may send once authenticated.  n is the part of
\* the payload the relay does not inspect (message id, chat id, timestamp,
\* name): clients give every frame a fresh one.  who is what the client
\* claims in the identity field, dest what it puts in the routing field.
RoutedTexts(n) ==
    UNION {
      { [type |-> "message", id |-> n, sender_id |-> who, recipient_id |-> dest],
        [type |-> "delivery_receipt", message_id |-> n, sender_id |-> dest,
         delivered_to |-> who],
        [type |-> "read_receipt", chat_id |-> n, sender_id |-> dest, user_id |-> who] }
      : who \in Users, dest \in Users }
    \cup
    UNION {
      { [type |-> "typing", chat_id |-> n, user_id |-> who],
        [type |-> "presence", user_id |-> who, is_online |-> TRUE, last_seen |-> Some(n)],
        [type |-> "profile_update", user_id |-> who, name |-> n, phone |-> None] }
      : who \in Users }

\* ChatMessage frames of clients that leave sender_id for the relay to fill.
ChatTexts(n) ==
    { [type |-> "message", id |-> n, sender_id |-> "", recipient_id |-> dest] :
        dest \in Users }

\* Call-signalling frames of the eight variants, from a client that claims to
\* be who and calls dest.
CallTexts(n) ==
    { [type |-> t, call_id |-> n, from_user_id |-> who, to_user_id |-> dest] :
        t \in DOMAIN CallVariantOf, who \in Users, dest \in Users }

\* The token a Connect frame may carry, and the values PULSE_ACCESS_TOKEN may
\* have when wait_for_connect reads it (None: not set).
Tokens == {None, Some("secret"), Some("guess")}
EnvTokens == {None, Some(""), Some("secret")}

\* Text frames a client may send before its Connect: a frame of another
\* variant, or one that is no WsMessage.
HandshakeTexts ==
    { [type |-> "auth_response", success |-> TRUE], [type |-> "error"],
      [type |-> "typing", chat_id |-> 0, user_id |-> "u1"],
      [type |-> "no_such_type"] }

IgnoredTexts ==
    { [type |-> "connect", user_id |-> who] : who \in Users }
    \cup { [type |-> "auth_response", success |-> TRUE], [type |-> "error"],
           [type |-> "no_such_type"] }

NoText == [type |-> "none"]

\* serde_json::to_string(&auth_response) (connection.rs 34-38).
AuthResponseJson ==
    [type |-> "auth_response", success |-> TRUE, message |-> "Connected to server"]

(* ----------------------------- ServerState ----------------------------- *)

Range(f) == { f[i] : i \in DOMAIN f }

RemoveKey(f, k) == [x \in (DOMAIN f) \ {k} |-> f[x]]

\* A loop over the senders that stops at the first send that fails.
PushAllStopsAtClosed(channels, ch, rxs, m) ==
    [c \in DOMAIN ch |->
        IF \E i \in DOMAIN channels :
              channels[i] = c /\ \A j \in 1..i : rxs[channels[j]] = "open"
        THEN Append(ch[c], m) ELSE ch[c]]

\* tx.send(m) on each channel of the list: pushes onto the channels whose
\* receiver is alive; a send on a closed channel is an Err (nothing pushed).
PushAll(channels, ch, rxs, m) ==
    [c \in DOMAIN ch |->
        IF c \in Range(channels) /\ rxs[c] = "open" THEN Append(ch[c], m) ELSE ch[c]]

\* ServerState::add_client
AddClient(cl, u, c) ==
    IF u \in DOMAIN cl THEN [cl EXCEPT ![u] = Append(@, c)]
    ELSE cl @@ (u :> <<c>>)

\* A retain that drops the oldest channel of the list, closed or not.
RetainAllButFirst(cl, rxs, u) == [cl EXCEPT ![u] = Tail(@)]

\* ServerState::remove_client, first half: entry.retain(|tx| !tx.is_closed())
\* under the entry's lock.
RetainOpen(cl, rxs, u) ==
    [cl EXCEPT ![u] = SelectSeq(@, LAMBDA c : rxs[c] = "open")]

\* ServerState::remove_client run from start to end with nothing in between.
RemoveClient(cl, rxs, u) ==
    IF u \in DOMAIN cl
    THEN LET kept == RetainOpen(cl, rxs, u)
         IN  IF kept[u] = <<>> THEN RemoveKey(kept, u) ELSE kept
    ELSE cl

\* A send_to_user that stops after the first sender of the entry.
SendToUserFirstOnly(cl, ch, rxs, u, m) ==
    IF u \in DOMAIN cl /\ cl[u] # <<>> THEN PushAll(<<cl[u][1]>>, ch, rxs, m) ELSE ch

\* A send_to_user that reports success whenever the user has an entry,
\* open channels or not.
SendToUserSentAnyEntry(cl, rxs, u) == u \in DOMAIN cl

\* A send_to_user that reports failure whatever it delivered.
SendToUserSentNever(cl, rxs, u) == FALSE

\* ServerState::send_to_user: the channel contents after the call ...
SendToUser(cl, ch, rxs, u, m) ==
    IF u \in DOMAIN cl THEN PushAll(cl[u], ch, rxs, m) ELSE ch

\* ... and its return value.
SendToUserSent(cl, rxs, u) ==
    /\ u \in DOMAIN cl
    /\ \E i \in DOMAIN cl[u] : rxs[cl[u][i]] = "open"

\* A queue_message that replaces the user's list instead of extending it (an
\* insert that is not atomic with the lookup).
QueueMessageOverwrite(pq, u, m) == RemoveKey(pq, u) @@ (u :> <<m>>)

\* A queue_message whose capacity test is off by one.
QueueMessageLateDrop(pq, u, m) ==
    LET entry == IF u \in DOMAIN pq THEN pq[u] ELSE <<>>
        kept  == IF Len(entry) > MAX_PENDING_MESSAGES_PER_USER THEN Tail(entry) ELSE entry
    IN  RemoveKey(pq, u) @@ (u :> Append(kept, m))

\* A queue_message that, at capacity, drops the newest entry instead of the
\* oldest.
QueueMessageDropNewest(pq, u, m) ==
    LET entry == IF u \in DOMAIN pq THEN pq[u] ELSE <<>>
        kept  == IF Len(entry) >= MAX_PENDING_MESSAGES_PER_USER
                 THEN SubSeq(entry, 1, Len(entry) - 1) ELSE entry
    IN  RemoveKey(pq, u) @@ (u :> Append(kept, m))

\* ServerState::queue_message
QueueMessage(pq, u, m) ==
    LET entry == IF u \in DOMAIN pq THEN pq[u] ELSE <<>>
        kept  == IF Len(entry) >= MAX_PENDING_MESSAGES_PER_USER THEN Tail(entry) ELSE entry
    IN  RemoveKey(pq, u) @@ (u :> Append(kept, m))

\* ServerState::take_pending_messages: the returned list ...
TakePendingMessages(pq, u) == IF u \in DOMAIN pq THEN pq[u] ELSE <<>>

\* A take that empties the whole map.
TakePendingRestClearsAll(pq, u) == <<>>

\* A take that returns the list but leaves the entry in the map.
TakePendingRestKeeps(pq, u) == pq

\* ... and the map it leaves.
TakePendingRest(pq, u) == RemoveKey(pq, u)

\* ServerState::pending_count
PendingCount(pq, u) == IF u \in DOMAIN pq THEN Len(pq[u]) ELSE 0

\* ServerState::is_online
IsOnline(cl, u) == u \in DOMAIN cl /\ Len(cl[u]) > 0

\* ServerState::online_users, on one view of the map.
OnlineUsers(cl) == {u \in DOMAIN cl : ~(cl[u] = <<>>)}

\* A visit that pushes onto the first channel of the entry only.
BroadcastVisitFirstChannel(cl, ch, rxs, k, m) ==
    IF k \in DOMAIN cl /\ cl[k] # <<>> THEN PushAll(<<cl[k][1]>>, ch, rxs, m) ELSE ch

\* One entry visited by the iteration of ServerState::broadcast.
BroadcastVisit(cl, ch, rxs, k, m) ==
    IF k \in DOMAIN cl THEN PushAll(cl[k], ch, rxs, m) ELSE ch

(* ---------------------------- handle_message --------------------------- *)

\* An identity overwrite that, for a DeliveryReceipt, writes sender_id (the
\* routing field) instead of delivered_to.
EnforceIdentityWrongField(msg, sender_id) ==
    CASE msg.variant = "ChatMessage"     -> [msg EXCEPT !.sender_id = sender_id]
      [] msg.variant = "Typing"          -> [msg EXCEPT !.user_id = sender_id]
      [] msg.variant = "Presence"        -> [msg EXCEPT !.user_id = sender_id]
      [] msg.variant = "DeliveryReceipt" -> [msg EXCEPT !.sender_id = sender_id]
      [] msg.variant = "ReadReceipt"     -> [msg EXCEPT !.user_id = sender_id]
      [] msg.variant = "ProfileUpdate"   -> [msg EXCEPT !.user_id = sender_id]
      [] OTHER -> msg

\* "Enforce sender identity to prevent spoofing"
EnforceIdentity(msg, sender_id) ==
    CASE msg.variant = "ChatMessage"     -> [msg EXCEPT !.sender_id = sender_id]
      [] msg.variant = "Typing"          -> [msg EXCEPT !.user_id = sender_id]
      [] msg.variant = "Presence"        -> [msg EXCEPT !.user_id = sender_id]
      [] msg.variant = "DeliveryReceipt" -> [msg EXCEPT !.delivered_to = sender_id]
      [] msg.variant = "ReadReceipt"     -> [msg EXCEPT !.user_id = sender_id]
      [] msg.variant = "ProfileUpdate"   -> [msg EXCEPT !.user_id = sender_id]
      [] msg.variant \in DOMAIN CallTagOf -> [msg EXCEPT !.from_user_id = sender_id]
      [] OTHER -> msg

\* A routing that treats a Connect as a frame to broadcast.
RouteVerbConnectBroadcast(msg) ==
    CASE msg.variant \in {"ChatMessage", "DeliveryReceipt", "ReadReceipt"} -> "send_or_queue"
      [] msg.variant \in {"Typing", "Presence", "ProfileUpdate", "Connect"} -> "broadcast"
      [] OTHER -> "ignore"

\* A routing that hands every routed variant to send_or_queue.
RouteVerbQueuesAll(msg) ==
    CASE msg.variant \in {"ChatMessage", "DeliveryReceipt", "ReadReceipt",
                          "Typing", "Presence", "ProfileUpdate"} -> "send_or_queue"
      [] OTHER -> "ignore"

\* A routing that hands call signalling to send_or_queue.
RouteVerbQueuesCalls(msg) ==
    CASE msg.variant \in {"ChatMessage", "DeliveryReceipt", "ReadReceipt"} -> "send_or_queue"
      [] msg.variant \in {"Typing", "Presence", "ProfileUpdate"} -> "broadcast"
      [] msg.variant \in DOMAIN CallTagOf -> "send_or_queue"
      [] OTHER -> "ignore"

\* The routing decision of handle_message: which verb, and for whom.
RouteVerb(msg) ==
    CASE msg.variant \in {"ChatMessage", "DeliveryReceipt", "ReadReceipt"} -> "send_or_queue"
      [] msg.variant \in {"Typing", "Presence", "ProfileUpdate"} -> "broadcast"
      [] msg.variant \in DOMAIN CallTagOf -> "send_to_user"
      [] OTHER -> "ignore"

\* A routing that sends a receipt to the user who issued it.
RouteTargetReceiptAuthor(msg) ==
    CASE msg.variant = "ChatMessage" -> msg.recipient_id
      [] msg.variant = "DeliveryReceipt" -> msg.delivered_to
      [] msg.variant = "ReadReceipt" -> msg.user_id
      [] OTHER -> ""

\* A routing that sends a ChatMessage back to its sender.
RouteTargetSender(msg) ==
    CASE msg.variant \in {"ChatMessage", "DeliveryReceipt", "ReadReceipt"} -> msg.sender_id
      [] OTHER -> ""

RouteTarget(msg) ==
    CASE msg.variant = "ChatMessage" -> msg.recipient_id
      [] msg.variant \in {"DeliveryReceipt", "ReadReceipt"} -> msg.sender_id
      [] msg.variant \in DOMAIN CallTagOf -> msg.to_user_id
      [] OTHER -> ""

(* ----------------------- broadcast key iteration ----------------------- *)

\* The keys an iteration of the clients map may meet: Users, and whatever
\* other key the map holds when the iteration starts (a visit to a key with
\* no entry finds nothing).
Keys == Users \cup DOMAIN clients

\* A broadcast that ignores exclude_user_id.
BroadcastKeysAll(exclude) == Keys

\* The keys whose entries ServerState::broadcast pushes to:
\* "if Some(entry.key().as_str()) != exclude_user_id".
BroadcastKeys(exclude) == Keys \ exclude

\* ServerState::broadcast, run alone from its first entry to its last: the
\* channel contents after the iteration has visited the keys ks.
RECURSIVE BroadcastOver(_, _, _, _, _)
BroadcastOver(ks, cl, ch, rxs, m) ==
    IF ks = {} THEN ch
    ELSE LET k == CHOOSE x \in ks : TRUE
         IN  BroadcastOver(ks \ {k}, cl, BroadcastVisit(cl, ch, rxs, k, m), rxs, m)

(* --------------------------- handle_connection ------------------------- *)

NoLoc ==
    [user |-> "", todo |-> {}, msg |-> NoText, dest |-> "", roster |-> <<>>,
     taken |-> <<>>, i |-> 1, drainEnd |-> 0, after |-> "", writerFailed |-> FALSE,
     auth |-> FALSE, skipped |-> FALSE, claimed |-> "", token |-> <<>>, expected |-> <<>>,
     wire |-> <<>>, broken |-> FALSE]

\* WebSocketClient::new(): no connect loop, write_tx None, connected false,
\* nothing in the shutdown channel.  shutdown is what shutdown_rx will meet:
\* "empty", "one" value, or "lagged" (a second value overwrote an unread one
\* in the channel of capacity 1).  The other fields record, for the
\* properties, the first disconnect() and what followed it.
NoClient ==
    [pc |-> "idle", connected |-> FALSE, write_tx |-> FALSE, wq |-> <<>>,
     shutdown |-> "empty", should_reconnect |-> TRUE, link |-> "none",
     disconnects |-> 0, closing |-> 0,
     calledIn |-> "", connectedAtCall |-> FALSE, dropped |-> FALSE,
     reconnected |-> FALSE, close_frame |-> FALSE]

\* A caller of ServerState between two calls; ret is what its last
\* send_or_queue returned.
Idle == [op |-> "idle", user |-> "", msg |-> 0, ret |-> FALSE]

Init ==
    /\ clients = <<>>
    /\ pending = <<>>
    /\ chan = [c \in Sessions |-> <<>>]
    /\ rx = [c \in Sessions |-> "none"]
    /\ pc = [s \in Sessions |-> "handshake"]
    /\ loc = [s \in Sessions |-> NoLoc]
    /\ handled = <<>>
    /\ call = [inflight |-> [t \in Callers |-> Idle], log |-> <<>>, issued |-> 0]
    /\ client = NoClient

\* The session is past its attach sequence (connection.rs 17-94).
InLoop(s) ==
    \/ pc[s] \in {"steady", "queue", "remove", "remove_entry", "closed"}
    \/ pc[s] = "broadcast" /\ loc[s].after # "roster"

\* The session has left the read loop (connection.rs 135-149).
Leaving(s) ==
    \/ pc[s] \in {"remove", "remove_entry", "closed"}
    \/ pc[s] = "broadcast" /\ loc[s].after = "closed"

\* wait_for_connect returns Some(user_id), user_id being whatever string the
\* Connect frame carried; the channel is created and registered
\* (connection.rs 17, 27-31).
ConnectAs(s, ids) ==
    /\ pc[s] = "handshake"
    /\ \A x \in Before(s) : InLoop(x)
    /\ \E u \in ids :
         /\ rx' = [rx EXCEPT ![s] = "open"]
         /\ clients' = AddClient(clients, u, s)
         /\ loc' = [loc EXCEPT ![s] = [NoLoc EXCEPT !.user = u,
                                        !.msg = OnlinePresence(u),
                                        !.todo = BroadcastKeys({u}),
                                        !.after = "roster",
                                        !.auth = TRUE]]
    /\ pc' = [pc EXCEPT ![s] = "broadcast"]
    /\ UNCHANGED <<pending, chan, handled, call, client>>

\* The Connect frame of a client that names itself.
Connect(s) == ConnectAs(s, ConnectIds(s))

\* The Connect frame of a client that may send any user_id, "" too.
ConnectAny(s) == ConnectAs(s, AnyIds(s))

\* A token check that lets a Connect without a token pass.
TokenAcceptedWhenAbsent(token, expected) ==
    IF expected # None /\ expected[1] # ""
    THEN token = None \/ token[1] = expected[1]
    ELSE TRUE

\* The token check of wait_for_connect: token is the Connect frame's
\* Option<String>, expected what std::env::var("PULSE_ACCESS_TOKEN") gives
\* (None when the variable is not set).
TokenAccepted(token, expected) ==
    IF expected # None /\ expected[1] # ""
    THEN token # None /\ token[1] = expected[1]
    ELSE TRUE

\* A Connect frame arrives in wait_for_connect: with an accepted token the
\* session goes on as in Connect (the AuthResponse is written to the socket),
\* otherwise wait_for_connect returns None and handle_connection returns.
ConnectFrame(s) ==
    /\ pc[s] = "handshake"
    /\ \A x \in Before(s) : InLoop(x)
    /\ \E u \in ConnectIds(s), token \in Tokens, expected \in EnvTokens :
         LET l == [loc[s] EXCEPT !.token = token, !.expected = expected, !.claimed = u]
         IN  IF TokenAccepted(token, expected)
             THEN /\ rx' = [rx EXCEPT ![s] = "open"]
                  /\ clients' = AddClient(clients, u, s)
                  /\ loc' = [loc EXCEPT ![s] = [l EXCEPT !.user = u,
                                                 !.msg = OnlinePresence(u),
                                                 !.todo = BroadcastKeys({u}),
                                                 !.after = "roster",
                                                 !.auth = TRUE]]
                  /\ pc' = [pc EXCEPT ![s] = "broadcast"]
             ELSE /\ loc' = [loc EXCEPT ![s] = l]
                  /\ pc' = [pc EXCEPT ![s] = "closed"]
                  /\ UNCHANGED <<rx, clients>>
    /\ UNCHANGED <<pending, chan, handled, call, client>>

\* A text frame that fails to parse, or parses to another variant than
\* Connect, arrives in wait_for_connect: the while loop goes on to the next
\* frame (connection.rs 158-191).
HandshakeSkip(s) ==
    /\ pc[s] = "handshake"
    /\ \E text \in HandshakeTexts : FromStr(text).variant # "Connect"
    /\ loc' = [loc EXCEPT ![s].skipped = TRUE]
    /\ UNCHANGED <<clients, pending, chan, rx, pc, handled, call, client>>

\* A handshake that, when it ends, announces the departure as the end of an
\* authenticated session does.
HandshakeEndsAnnounces(s) ==
    /\ pc[s] = "handshake"
    /\ loc' = [loc EXCEPT ![s].msg = OfflinePresence(loc[s].user),
                          ![s].todo = Users,
                          ![s].after = "closed"]
    /\ pc' = [pc EXCEPT ![s] = "broadcast"]
    /\ UNCHANGED <<clients, pending, chan, rx, handled, call, client>>

\* A timeout that never fires: the session waits on.
HandshakeTimerLost(s) ==
    /\ pc[s] = "handshake"
    /\ UNCHANGED vars

\* The stream ends or the 10 seconds pass before a Connect was accepted:
\* wait_for_connect returns None (connection.rs 192-201, 19-22).
HandshakeEnds(s) ==
    /\ pc[s] = "handshake"
    /\ pc' = [pc EXCEPT ![s] = "closed"]
    /\ UNCHANGED <<clients, pending, chan, rx, loc, handled, call, client>>

\* What the session does when a broadcast it called has visited every entry.
AfterBroadcast(l) ==
    CASE l.after = "roster" -> [l EXCEPT !.todo = Keys \ {l.user}, !.msg = NoText,
                                         !.after = ""]
      [] OTHER -> [l EXCEPT !.msg = NoText, !.after = ""]

\* ServerState::broadcast visits one more entry of the map.
Broadcast(s) ==
    /\ pc[s] = "broadcast"
    /\ \E k \in loc[s].todo :
         LET todo == loc[s].todo \ {k}
             l    == [loc[s] EXCEPT !.todo = todo]
         IN  /\ chan' = BroadcastVisit(clients, chan, rx, k, loc[s].msg)
             /\ IF todo = {}
                THEN /\ pc' = [pc EXCEPT ![s] = loc[s].after]
                     /\ loc' = [loc EXCEPT ![s] = AfterBroadcast(l)]
                ELSE /\ pc' = pc
                     /\ loc' = [loc EXCEPT ![s] = l]
    /\ UNCHANGED <<clients, pending, rx, handled, call, client>>

\* state.online_users() visits one more entry (connection.rs 61).
RosterSnapshot(s) ==
    /\ pc[s] = "roster"
    /\ \E k \in loc[s].todo :
         LET todo   == loc[s].todo \ {k}
             roster == IF IsOnline(clients, k) THEN Append(loc[s].roster, k)
                       ELSE loc[s].roster
         IN  /\ loc' = [loc EXCEPT ![s].todo = todo, ![s].roster = roster]
             /\ pc' = [pc EXCEPT ![s] =
                         IF todo # {} THEN "roster"
                         ELSE IF roster # <<>> THEN "roster_send" ELSE "take"]
    /\ UNCHANGED <<clients, pending, chan, rx, handled, call, client>>

\* state.send_to_user(&user_id, &json) for one online user (connection.rs 62-70).
RosterSend(s) ==
    /\ pc[s] = "roster_send"
    /\ chan' = SendToUser(clients, chan, rx, loc[s].user,
                          OnlinePresence(Head(loc[s].roster)))
    /\ loc' = [loc EXCEPT ![s].roster = Tail(@)]
    /\ pc' = [pc EXCEPT ![s] = IF Tail(loc[s].roster) = <<>> THEN "take" ELSE "roster_send"]
    /\ UNCHANGED <<clients, pending, rx, handled, call, client>>

\* let pending = state.take_pending_messages(&user_id) (connection.rs 75);
\* with nothing to deliver the writer task is spawned and the loop entered.
TakePending(s) ==
    /\ pc[s] = "take"
    /\ LET msgs == TakePendingMessages(pending, loc[s].user)
       IN  /\ pending' = TakePendingRest(pending, loc[s].user)
           /\ loc' = [loc EXCEPT ![s].taken = msgs, ![s].i = 1,
                                 ![s].drainEnd = Len(chan[s])]
           /\ pc' = [pc EXCEPT ![s] = IF msgs = <<>> THEN "steady" ELSE "drain"]
    /\ UNCHANGED <<clients, chan, rx, handled, call, client>>

\* A flush loop that walks the taken list backwards.
DrainItemReversed(taken, i) == taken[Len(taken) + 1 - i]

\* The message the i-th iteration of the flush loop delivers.
DrainItem(taken, i) == taken[i]

\* state.send_to_user(&user_id, &msg) for the next taken message
\* (connection.rs 82-84); after the last one the writer task is spawned.
Drain(s) ==
    /\ pc[s] = "drain"
    /\ chan' = SendToUser(clients, chan, rx, loc[s].user,
                          DrainItem(loc[s].taken, loc[s].i))
    /\ loc' = [loc EXCEPT ![s].i = @ + 1, ![s].drainEnd = Len(chan'[s])]
    /\ pc' = [pc EXCEPT ![s] = IF loc[s].i = Len(loc[s].taken) THEN "steady" ELSE "drain"]
    /\ UNCHANGED <<clients, pending, rx, handled, call, client>>

\* handle_message on a text that is routed: parse, overwrite, re-serialize,
\* then the first access to the shared state.
HandleMessage(s, texts) ==
    /\ pc[s] = "steady"
    /\ \E text \in texts :
         LET msg       == EnforceIdentity(FromStr(text), loc[s].user)
             safe_text == ToJson(msg)
             target    == RouteTarget(msg)
         IN  /\ handled' = Append(handled, [session |-> s, user |-> loc[s].user, text |-> text])
             /\ IF RouteVerb(msg) = "send_or_queue"
                THEN /\ chan' = SendToUser(clients, chan, rx, target, safe_text)
                     /\ IF SendToUserSent(clients, rx, target)
                        THEN /\ pc' = pc
                             /\ loc' = loc
                        ELSE /\ pc' = [pc EXCEPT ![s] = "queue"]
                             /\ loc' = [loc EXCEPT ![s].msg = safe_text, ![s].dest = target]
                ELSE IF RouteVerb(msg) = "send_to_user"
                THEN /\ chan' = SendToUser(clients, chan, rx, target, safe_text)
                     /\ pc' = pc
                     /\ loc' = loc
                ELSE /\ chan' = chan
                     /\ pc' = [pc EXCEPT ![s] = "broadcast"]
                     /\ loc' = [loc EXCEPT ![s].msg = safe_text,
                                           ![s].todo = BroadcastKeys({loc[s].user}),
                                           ![s].after = "steady"]
    /\ UNCHANGED <<clients, pending, rx, call, client>>

\* A text frame of any routed variant arrives.
Receive(s) ==
    /\ Len(handled) < MaxFrames
    /\ HandleMessage(s, RoutedTexts(Len(handled) + 1))

\* A ChatMessage frame arrives.
ReceiveChat(s) ==
    /\ Len(handled) < MaxChatFrames
    /\ HandleMessage(s, ChatTexts(Len(handled) + 1))

\* A ChatMessage frame arrives at a session that went through the handshake.
ReceiveAuthenticated(s) ==
    /\ loc[s].auth
    /\ Len(handled) < MaxAuthFrames
    /\ HandleMessage(s, ChatTexts(Len(handled) + 1))

\* A call-signalling frame, or a ChatMessage frame, arrives.
ReceiveCall(s) ==
    /\ Len(handled) < MaxCallFrames
    /\ HandleMessage(s, CallTexts(Len(handled) + 1) \cup ChatTexts(Len(handled) + 1))

\* handle_message on a text that fails to parse or that is a Connect,
\* AuthResponse or Error: nothing is routed.
ReceiveIgnored(s) ==
    /\ pc[s] = "steady"
    /\ \E text \in IgnoredTexts :
         RouteVerb(EnforceIdentity(FromStr(text), loc[s].user)) = "ignore"
    /\ UNCHANGED vars

\* Any text frame arrives in the read loop: handle_message returns early on
\* a parse error and has an empty arm for Connect, AuthResponse and Error
\* (connection.rs 206-212, 300-306).  handled also logs the dropped frames.
ReceiveFrame(s) ==
    /\ pc[s] = "steady"
    /\ Len(handled) < MaxAnyFrames
    /\ \E text \in RoutedTexts(Len(handled) + 1) \cup IgnoredTexts :
         IF RouteVerb(EnforceIdentity(FromStr(text), loc[s].user)) = "ignore"
         THEN /\ handled' = Append(handled, [session |-> s, user |-> loc[s].user,
                                             text |-> text])
              /\ UNCHANGED <<clients, pending, chan, rx, pc, loc, call, client>>
         ELSE HandleMessage(s, {text})

\* The second half of ServerState::send_or_queue: queue_message.
Queue(s) ==
    /\ pc[s] = "queue"
    /\ pending' = QueueMessage(pending, loc[s].dest, loc[s].msg)
    /\ loc' = [loc EXCEPT ![s].msg = NoText, ![s].dest = ""]
    /\ pc' = [pc EXCEPT ![s] = "steady"]
    /\ UNCHANGED <<clients, chan, rx, handled, call, client>>

\* The writer task's ws_sender.send fails on a frame it received: the task
\* ends and drops rx (connection.rs 88-94).
WriterFails(s) ==
    /\ InLoop(s)
    /\ ~Leaving(s)
    /\ rx[s] = "open"
    /\ chan[s] # <<>>
    /\ Cardinality({x \in Sessions : loc[x].writerFailed}) < MaxWriterFailures
    /\ rx' = [rx EXCEPT ![s] = "closed"]
    /\ loc' = [loc EXCEPT ![s].writerFailed = TRUE]
    /\ UNCHANGED <<clients, pending, chan, pc, handled, call, client>>

\* The select loop breaks (close frame, read error, end of stream, or the
\* writer task finished) and send_task.abort() is called (connection.rs 136).
Close(s) ==
    /\ pc[s] = "steady"
    /\ Cardinality({x \in Sessions : Leaving(x)}) < MaxCloses
    /\ pc' = [pc EXCEPT ![s] = "remove"]
    /\ UNCHANGED <<clients, pending, chan, rx, loc, handled, call, client>>

\* The runtime drops the aborted writer task, and rx with it; this is not
\* ordered with what handle_connection does after abort().
AbortTakesEffect(s) ==
    /\ Leaving(s)
    /\ rx[s] = "open"
    /\ rx' = [rx EXCEPT ![s] = "closed"]
    /\ UNCHANGED <<clients, pending, chan, pc, loc, handled, call, client>>

\* ServerState::remove_client up to drop(entry) (state.rs 34-39).
RemoveRetain(s) ==
    /\ pc[s] = "remove"
    /\ LET u == loc[s].user
           offline == [loc EXCEPT ![s].msg = OfflinePresence(u),
                                  ![s].todo = BroadcastKeys({}),
                                  ![s].after = "closed"]
       IN  IF u \in DOMAIN clients
           THEN /\ clients' = RetainOpen(clients, rx, u)
                /\ IF clients'[u] = <<>>
                   THEN /\ pc' = [pc EXCEPT ![s] = "remove_entry"]
                        /\ loc' = loc
                   ELSE /\ pc' = [pc EXCEPT ![s] = "broadcast"]
                        /\ loc' = offline
           ELSE /\ clients' = clients
                /\ pc' = [pc EXCEPT ![s] = "broadcast"]
                /\ loc' = offline
    /\ UNCHANGED <<pending, chan, rx, handled, call, client>>

\* ServerState::remove_client: self.clients.remove(user_id) (state.rs 40).
RemoveEntry(s) ==
    /\ pc[s] = "remove_entry"
    /\ clients' = RemoveKey(clients, loc[s].user)
    /\ loc' = [loc EXCEPT ![s].msg = OfflinePresence(loc[s].user),
                          ![s].todo = BroadcastKeys({}),
                          ![s].after = "closed"]
    /\ pc' = [pc EXCEPT ![s] = "broadcast"]
    /\ UNCHANGED <<pending, chan, rx, handled, call, client>>

Next ==
    \E s \in Sessions :
        \/ Connect(s)
        \/ Broadcast(s)
        \/ RosterSnapshot(s)
        \/ RosterSend(s)
        \/ TakePending(s)
        \/ Drain(s)
        \/ Receive(s)
        \/ ReceiveIgnored(s)
        \/ Queue(s)
        \/ WriterFails(s)
        \/ Close(s)
        \/ AbortTakesEffect(s)
        \/ RemoveRetain(s)
        \/ RemoveEntry(s)

Spec == Init /\ [][Next]_vars

\* The relay with clients that send ChatMessage frames only.
NextChat ==
    \E s \in Sessions :
        \/ Connect(s)
        \/ Broadcast(s)
        \/ RosterSnapshot(s)
        \/ RosterSend(s)
        \/ TakePending(s)
        \/ Drain(s)
        \/ ReceiveChat(s)
        \/ Queue(s)
        \/ WriterFails(s)
        \/ Close(s)
        \/ AbortTakesEffect(s)
        \/ RemoveRetain(s)
        \/ RemoveEntry(s)

SpecChat == Init /\ [][NextChat]_vars

\* The relay with clients that send call-signalling and ChatMessage frames.
NextCall ==
    \E s \in Sessions :
        \/ Connect(s)
        \/ Broadcast(s)
        \/ RosterSnapshot(s)
        \/ RosterSend(s)
        \/ TakePending(s)
        \/ Drain(s)
        \/ ReceiveCall(s)
        \/ Queue(s)
        \/ WriterFails(s)

SpecCall == Init /\ [][NextCall]_vars

\* Attach and detach alone: clients whose Connect may carry any user id, the
\* empty one too, and that send nothing else before they leave.
NextAttach ==
    \E s \in Sessions :
        \/ ConnectAny(s)
        \/ Broadcast(s)
        \/ RosterSnapshot(s)
        \/ RosterSend(s)
        \/ TakePending(s)
        \/ WriterFails(s)
        \/ Close(s)
        \/ AbortTakesEffect(s)
        \/ RemoveRetain(s)
        \/ RemoveEntry(s)

SpecAttach == Init /\ [][NextAttach]_vars

\* The relay seen from the handshake: every frame a client may send before it
\* is authenticated, with any value of PULSE_ACCESS_TOKEN, and the attach
\* sequence that follows an accepted Connect.
NextAuth ==
    \E s \in Sessions :
        \/ ConnectFrame(s)
        \/ HandshakeSkip(s)
        \/ HandshakeEnds(s)
        \/ Broadcast(s)
        \/ RosterSnapshot(s)
        \/ RosterSend(s)
        \/ TakePending(s)
        \/ Drain(s)
        \/ ReceiveAuthenticated(s)
        \/ Queue(s)

SpecAuth == Init /\ [][NextAuth]_vars

\* The handshake with the runtime's timer running: tokio::time::timeout ends
\* wait_for_connect, after 10 seconds, for every session still in it
\* (connection.rs 156, 195-201).
SpecAuthFair == SpecAuth /\ \A s \in Sessions : WF_vars(HandshakeEnds(s))

\* The read loop with clients that send, besides frames that are routed, frames
\* that fail to parse and frames of the variants handle_message ignores.
NextFrames ==
    \E s \in Sessions :
        \/ Connect(s)
        \/ Broadcast(s)
        \/ RosterSnapshot(s)
        \/ RosterSend(s)
        \/ TakePending(s)
        \/ Drain(s)
        \/ ReceiveFrame(s)
        \/ Queue(s)

SpecFrames == Init /\ [][NextFrames]_vars

(* ------------------------- the WebSocket's write half ------------------ *)
(* loc[s].wire is the sequence of text frames written to the WebSocket of  *)
(* session s: by handle_connection itself (the AuthResponse) and, once it  *)
(* is spawned, by the writer task, which takes the frames of chan[s] in    *)
(* order.  loc[s].broken: a write to the socket has failed.                *)

\* The channel is created and registered (connection.rs 27-31); the
\* AuthResponse is not written yet.
ConnectRegister(s) ==
    /\ pc[s] = "handshake"
    /\ \A x \in Before(s) : InLoop(x)
    /\ \E u \in ConnectIds(s) :
         /\ rx' = [rx EXCEPT ![s] = "open"]
         /\ clients' = AddClient(clients, u, s)
         /\ loc' = [loc EXCEPT ![s] = [NoLoc EXCEPT !.user = u, !.auth = TRUE]]
    /\ pc' = [pc EXCEPT ![s] = "auth_response"]
    /\ UNCHANGED <<pending, chan, handled, call, client>>

\* The sockets on which a write has failed are fewer than the bound.
MayBreak == Cardinality({x \in Sessions : loc[x].broken}) < MaxWriterFailures

\* ws_sender.send(auth_response), whose error is only logged, then the
\* Presence broadcast is set out (connection.rs 34-58).
AuthResponse(s) ==
    /\ pc[s] = "auth_response"
    /\ \E ok \in IF MayBreak THEN BOOLEAN ELSE {TRUE} :
         loc' = [loc EXCEPT ![s].wire = IF ok THEN Append(@, AuthResponseJson) ELSE @,
                            ![s].broken = ~ok,
                            ![s].msg = OnlinePresence(loc[s].user),
                            ![s].todo = BroadcastKeys({loc[s].user}),
                            ![s].after = "roster"]
    /\ pc' = [pc EXCEPT ![s] = "broadcast"]
    /\ UNCHANGED <<clients, pending, chan, rx, handled, call, client>>

\* A writer task that runs as soon as the channel exists.
WriterSpawnedAtRegistration(s) == rx[s] # "none"

\* tokio::spawn of the writer task has happened (connection.rs 88).
WriterSpawned(s) == InLoop(s)

\* The number of channel frames the writer task has received.
Received(s) == IF loc[s].wire = <<>> THEN 0 ELSE Len(loc[s].wire) - 1

\* The writer task has a frame to take: rx.recv() returns Some(msg).
WriterHasFrame(s) ==
    /\ WriterSpawned(s)
    /\ rx[s] = "open"
    /\ Received(s) < Len(chan[s])

\* A receiver that hands out the newest string of the channel.
RecvNewest(q, n) == q[Len(q)]

\* rx.recv() of an unbounded mpsc channel: after n strings were received it
\* returns the next of the strings sent, in the order they were sent.
Recv(q, n) == q[n + 1]

\* ws_sender.send(Message::Text(msg)) succeeds (connection.rs 89-90).
Write(s) ==
    /\ WriterHasFrame(s)
    /\ ~loc[s].broken
    /\ loc' = [loc EXCEPT ![s].wire = Append(@, Recv(chan[s], Received(s)))]
    /\ UNCHANGED <<clients, pending, chan, rx, pc, handled, call, client>>

\* ws_sender.send(Message::Text(msg)) fails: the loop breaks, the task ends
\* and rx is dropped (connection.rs 90-92).
WriteFails(s) ==
    /\ WriterHasFrame(s)
    /\ loc[s].broken \/ MayBreak
    /\ rx' = [rx EXCEPT ![s] = "closed"]
    /\ loc' = [loc EXCEPT ![s].writerFailed = TRUE, ![s].broken = TRUE]
    /\ UNCHANGED <<clients, pending, chan, pc, handled, call, client>>

\* A read loop that does not watch the writer task.
WriterExitUnnoticed(s) ==
    /\ pc[s] = "steady"
    /\ loc[s].writerFailed
    /\ UNCHANGED vars

\* Branch 2 of the select loop: the writer task has finished, the loop
\* breaks; send_task.abort() finds nothing to abort (connection.rs 128-136).
WriterExit(s) ==
    /\ pc[s] = "steady"
    /\ loc[s].writerFailed
    /\ pc' = [pc EXCEPT ![s] = "remove"]
    /\ UNCHANGED <<clients, pending, chan, rx, loc, handled, call, client>>

\* A ChatMessage frame arrives, in the behaviours that follow the socket.
ReceiveWire(s) ==
    /\ Len(handled) < MaxWireFrames
    /\ HandleMessage(s, ChatTexts(Len(handled) + 1))

NextWire ==
    \E s \in Sessions :
        \/ ConnectRegister(s)
        \/ AuthResponse(s)
        \/ Broadcast(s)
        \/ RosterSnapshot(s)
        \/ RosterSend(s)
        \/ TakePending(s)
        \/ Drain(s)
        \/ ReceiveWire(s)
        \/ Queue(s)
        \/ Write(s)
        \/ WriteFails(s)
        \/ WriterExit(s)
        \/ RemoveRetain(s)
        \/ RemoveEntry(s)

SpecWire == Init /\ [][NextWire]_vars

\* The steps the task of session s takes by itself once its writer task has
\* ended: the calls it is in return, select! polls send_task, and the cleanup
\* runs to its end.
Cleanup(s) ==
    \/ Queue(s)
    \/ Broadcast(s)
    \/ WriterExit(s)
    \/ RemoveRetain(s)
    \/ RemoveEntry(s)

\* The same behaviours with the runtime scheduling every task that can run.
SpecWireFair == SpecWire /\ \A s \in Sessions : WF_vars(Cleanup(s))

(* ------------------- ServerState under concurrent callers -------------- *)
(* The methods of ServerState called directly, as its unit tests do, by    *)
(* threads that interleave at the points where no map entry is locked.     *)
(* Messages are opaque strings, numbered as they are issued.  call.log is  *)
(* the sequence of completed queue_message and take steps.                *)

LogEntry(op, u, m, ret) == [op |-> op, user |-> u, msg |-> m, ret |-> ret]

CanCall == Len(call.log) < MaxCalls

CanIssue == CanCall /\ call.issued < MaxMessages

\* state.add_client(user_id, tx) with the sender of a new channel c.
ApiAddClient(u, c) ==
    /\ rx[c] = "none"
    /\ rx' = [rx EXCEPT ![c] = "open"]
    /\ clients' = AddClient(clients, u, c)
    /\ UNCHANGED <<pending, chan, pc, loc, handled, call, client>>

\* The receiver of channel c is dropped.
ApiDropReceiver(c) ==
    /\ rx[c] = "open"
    /\ rx' = [rx EXCEPT ![c] = "closed"]
    /\ UNCHANGED <<clients, pending, chan, pc, loc, handled, call, client>>

\* state.send_or_queue(user_id, message): the send_to_user half.
ApiSendOrQueue(t, u) ==
    /\ call.inflight[t].op = "idle"
    /\ CanIssue
    /\ LET m    == call.issued + 1
           sent == SendToUserSent(clients, rx, u)
       IN  /\ chan' = SendToUser(clients, chan, rx, u, m)
           /\ call' = [inflight |-> [call.inflight EXCEPT ![t] =
                                       IF sent THEN [Idle EXCEPT !.ret = TRUE]
                                       ELSE [op |-> "queue", user |-> u, msg |-> m,
                                             ret |-> FALSE]],
                       log |-> call.log,
                       issued |-> m]
    /\ UNCHANGED <<clients, pending, rx, pc, loc, handled, client>>

\* state.send_or_queue: the queue_message half, reached when nothing was sent.
ApiQueue(t) ==
    /\ call.inflight[t].op = "queue"
    /\ LET u == call.inflight[t].user
           m == call.inflight[t].msg
       IN  /\ pending' = QueueMessage(pending, u, m)
           /\ call' = [call EXCEPT !.inflight[t] = Idle,
                                   !.log = Append(@, LogEntry("queue", u, m, <<>>))]
    /\ UNCHANGED <<clients, chan, rx, pc, loc, handled, client>>

\* state.queue_message(user_id, message)
ApiQueueMessage(u) ==
    /\ CanIssue
    /\ LET m == call.issued + 1
       IN  /\ pending' = QueueMessage(pending, u, m)
           /\ call' = [call EXCEPT !.issued = m,
                                   !.log = Append(@, LogEntry("queue", u, m, <<>>))]
    /\ UNCHANGED <<clients, chan, rx, pc, loc, handled, client>>

\* state.take_pending_messages(user_id)
ApiTake(u) ==
    /\ CanCall
    /\ pending' = TakePendingRest(pending, u)
    /\ call' = [call EXCEPT !.log =
                  Append(@, LogEntry("take", u, 0, TakePendingMessages(pending, u)))]
    /\ UNCHANGED <<clients, chan, rx, pc, loc, handled, client>>

NextApi ==
    \/ \E u \in ApiOnlineUsers, c \in ApiChannels : ApiAddClient(u, c)
    \/ \E c \in ApiChannels : ApiDropReceiver(c)
    \/ \E t \in Callers, u \in Users : ApiSendOrQueue(t, u)
    \/ \E t \in Callers : ApiQueue(t)
    \/ \E u \in Users : ApiQueueMessage(u)
    \/ \E u \in Users : ApiTake(u)

SpecApi == Init /\ [][NextApi]_vars

(* ------------------- ServerState, one call at a time -------------------- *)
(* add_client, remove_client and send_to_user called one after the other,  *)
(* as the unit tests of state.rs do, with receivers dropped in between.    *)

\* state.remove_client(user_id)
ApiRemoveClient(u) ==
    /\ CanCall
    /\ clients' = RemoveClient(clients, rx, u)
    /\ call' = [call EXCEPT !.log = Append(@, LogEntry("remove", u, 0, <<>>))]
    /\ UNCHANGED <<pending, chan, rx, pc, loc, handled, client>>

\* state.send_to_user(user_id, message)
ApiSendToUser(u) ==
    /\ CanIssue
    /\ LET m == call.issued + 1
       IN  /\ chan' = SendToUser(clients, chan, rx, u, m)
           /\ call' = [call EXCEPT !.issued = m,
                         !.log = Append(@, LogEntry("send", u, m,
                                                    SendToUserSent(clients, rx, u)))]
    /\ UNCHANGED <<clients, pending, rx, pc, loc, handled, client>>

NextSeq ==
    \/ \E u \in Users, c \in Sessions : ApiAddClient(u, c)
    \/ \E c \in Sessions : ApiDropReceiver(c)
    \/ \E u \in Users : ApiRemoveClient(u)
    \/ \E u \in Users : ApiSendToUser(u)

SpecSeq == Init /\ [][NextSeq]_vars

\* state.broadcast(message, exclude_user_id), exclude_user_id an
\* Option<&str>.
ApiBroadcast(exclude) ==
    /\ CanIssue
    /\ LET m == call.issued + 1
       IN  /\ chan' = BroadcastOver(BroadcastKeys(Range(exclude)), clients, chan, rx, m)
           /\ call' = [call EXCEPT !.issued = m,
                         !.log = Append(@, LogEntry("broadcast", "", m, exclude))]
    /\ UNCHANGED <<clients, pending, rx, pc, loc, handled, client>>

\* add_client, broadcast and queue_message called one after the other, with
\* receivers dropped in between.
NextCast ==
    \/ \E u \in Users, c \in Sessions : ApiAddClient(u, c)
    \/ \E c \in Sessions : ApiDropReceiver(c)
    \/ \E u \in Users : ApiQueueMessage(u)
    \/ \E exclude \in {None} \cup {Some(u) : u \in Users} : ApiBroadcast(exclude)

SpecCast == Init /\ [][NextCast]_vars

(* ============================== properties ============================= *)
(* Spec is checked for C1-C3, SpecApi for C4-C7, SpecChat for C8-C10,       *)
(* SpecSeq and SpecCast for the claims about calls made one at a time,      *)
(* SpecAuth and SpecAuthFair for the claims about the handshake,            *)
(* SpecAttach for those about attach and detach, SpecFrames for dropped     *)
(* frames, SpecWire and SpecWireFair for what is written to the socket,     *)
(* SpecCall for call signalling, SpecCodec for the envelope round trip,    *)
(* SpecMain for the bind address, SpecClientFair for the desktop client.   *)

\* The number a client gave the frame (0 for a frame the relay authored).
FrameNo(text) ==
    CASE text.type = "message" -> text.id
      [] text.type = "typing" -> text.chat_id
      [] text.type = "delivery_receipt" -> text.message_id
      [] text.type = "read_receipt" -> text.chat_id
      [] text.type = "profile_update" -> text.name
      [] text.type = "presence" -> IF text.last_seen = None THEN 0 ELSE text.last_seen[1]
      [] OTHER -> 0

\* The "who this is from" field of a text, per variant.
IdentityOf(text) ==
    CASE text.type = "message" -> text.sender_id
      [] text.type = "delivery_receipt" -> text.delivered_to
      [] OTHER -> text.user_id

\* The user a unicast text is addressed to.
DestinationOf(text) ==
    CASE text.type = "message" -> text.recipient_id
      [] OTHER -> text.sender_id

UnicastTypes == {"message", "delivery_receipt", "read_receipt"}
BroadcastTypes == {"typing", "presence", "profile_update"}

\* Every (holder, text) such that text sits in the channel of session holder,
\* and every (user, text) such that text sits in user's offline queue.
Pushed == UNION {{<<c, chan[c][i]>> : i \in DOMAIN chan[c]} : c \in Sessions}
Queued == UNION {{<<u, pending[u][i]>> : i \in DOMAIN pending[u]} : u \in DOMAIN pending}

ClientFrame(text) == FrameNo(text) \in DOMAIN handled

\* The session, registered and with a live receiver, is where a push for its
\* user lands.
Attached(s) ==
    /\ rx[s] = "open"
    /\ loc[s].user \in DOMAIN clients
    /\ s \in Range(clients[loc[s].user])

(* C1. Identity enforcement: every copy of a client frame that sits in an  *)
(* outbound channel or in an offline queue carries, in its identity field, *)
(* the user of the session that handled it, whatever the client wrote.     *)
C1_IdentityEnforced ==
    \A p \in Pushed \cup Queued :
        ClientFrame(p[2]) => IdentityOf(p[2]) = handled[FrameNo(p[2])].user

\* A frame whose client claimed another identity has been pushed or queued.
C1_Witness ==
    \E p \in Pushed \cup Queued :
        /\ ClientFrame(p[2])
        /\ IdentityOf(handled[FrameNo(p[2])].text) # handled[FrameNo(p[2])].user
        /\ p[2].type = "delivery_receipt"

(* C2. Unicast exclusivity: a ChatMessage sits only in channels of sessions *)
(* of its recipient_id, or in recipient_id's offline queue.                 *)
C2_UnicastExclusive ==
    /\ \A p \in Pushed : p[2].type = "message" => loc[p[1]].user = p[2].recipient_id
    /\ \A p \in Queued : p[2].type = "message" => p[1] = p[2].recipient_id

\* A ChatMessage was pushed to its recipient while a session of another user
\* was attached.
C2_Witness ==
    \E p \in Pushed :
        /\ p[2].type = "message"
        /\ \E s \in Sessions : Attached(s) /\ loc[s].user # p[2].recipient_id

(* C3. No echo: no session of user u holds in its channel a frame that a    *)
(* session of u sent, unless it is a unicast frame addressed to u.          *)
C3_NoEcho ==
    \A p \in Pushed :
        (ClientFrame(p[2]) /\ handled[FrameNo(p[2])].user = loc[p[1]].user)
            => (p[2].type \in UnicastTypes /\ DestinationOf(p[2]) = loc[p[1]].user)

\* A broadcast frame sent by one of two attached sessions of the same user
\* has reached a session of another user.
C3_Witness ==
    \E p \in Pushed :
        /\ ClientFrame(p[2])
        /\ p[2].type \in BroadcastTypes
        /\ \E s \in Sessions :
             /\ s # handled[FrameNo(p[2])].session
             /\ loc[s].user = handled[FrameNo(p[2])].user
             /\ Attached(s)
             /\ chan[s] # <<>>

LastOf(q) == q[Len(q)]
Front(q) == SubSeq(q, 1, Len(q) - 1)
QueueOf(pq, u) == IF u \in DOMAIN pq THEN pq[u] ELSE <<>>
OpenChannelsOf(u) ==
    IF u \in DOMAIN clients THEN {c \in Range(clients[u]) : rx[c] = "open"} ELSE {}
OthersUnchanged(u) ==
    /\ DOMAIN pending' \ {u} = DOMAIN pending \ {u}
    /\ \A v \in DOMAIN pending \ {u} : pending'[v] = pending[v]

\* The send_to_user half of a send_or_queue call.
C4_SendHalf ==
    (call'.issued # call.issued /\ call'.log = call.log) =>
        \E t \in Callers, u \in Users :
            LET m == call'.issued
                b == call'.inflight[t]
            IN  /\ \A x \in Callers \ {t} : call'.inflight[x] = call.inflight[x]
                /\ pending' = pending
                /\ chan' = [c \in Sessions |->
                              IF c \in OpenChannelsOf(u) THEN Append(chan[c], m) ELSE chan[c]]
                /\ IF OpenChannelsOf(u) # {}
                   THEN b.op = "idle" /\ b.ret = TRUE
                   ELSE b = [op |-> "queue", user |-> u, msg |-> m, ret |-> FALSE]

\* The queue_message half of a send_or_queue call.
C4_QueueHalf ==
    \A t \in Callers :
        (call.inflight[t].op = "queue" /\ call'.inflight[t].op = "idle") =>
            LET u == call.inflight[t].user
                m == call.inflight[t].msg
            IN  /\ call'.inflight[t].ret = FALSE
                /\ chan' = chan
                /\ u \in DOMAIN pending'
                /\ LastOf(pending'[u]) = m
                /\ Front(pending'[u]) =
                      IF Len(QueueOf(pending, u)) < MAX_PENDING_MESSAGES_PER_USER
                      THEN QueueOf(pending, u) ELSE Tail(QueueOf(pending, u))
                /\ m \notin Range(Front(pending'[u]))
                /\ OthersUnchanged(u)

(* C4. send_or_queue(u, m) returns true and leaves the queues unchanged     *)
(* when a push onto a channel of u succeeds; otherwise it pushes nothing,   *)
(* appends m once to u's queue and returns false.                           *)
C4_SendOrQueue == [][C4_SendHalf /\ C4_QueueHalf]_vars

\* One call was sent (with a closed channel beside the open one) and a later
\* one, finding no open channel, was queued.
C4_Witness ==
    /\ \E t \in Callers : call.inflight[t].op = "idle" /\ call.inflight[t].ret
    /\ \E c \in Sessions : rx[c] = "closed" /\ chan[c] # <<>>
    /\ \E i \in DOMAIN call.log : call.log[i].op = "queue"
    /\ \E u \in DOMAIN clients : Len(clients[u]) = 2 /\ u \in DOMAIN pending

(* C5. Queue bound: no offline queue ever holds more than                   *)
(* MAX_PENDING_MESSAGES_PER_USER entries.                                   *)
C5_QueueBound ==
    \A u \in Users : PendingCount(pending, u) <= MAX_PENDING_MESSAGES_PER_USER

\* The messages queued for u by the log entries lo+1 .. hi.
QueuedIn(log, u, lo, hi) ==
    LET picked == SelectSeq(SubSeq(log, lo + 1, hi),
                            LAMBDA e : e.op = "queue" /\ e.user = u)
    IN  [i \in DOMAIN picked |-> picked[i].msg]

\* The last take(u) among log entries 1 .. hi (0 if none).
LastTake(log, u, hi) ==
    LET takes == {i \in 1..hi : log[i].op = "take" /\ log[i].user = u}
    IN  IF takes = {} THEN 0 ELSE CHOOSE i \in takes : \A j \in takes : j <= i

LastN(q, n) == IF Len(q) <= n THEN q ELSE SubSeq(q, Len(q) - n + 1, Len(q))

\* A queue is full and more messages than it holds were queued since its
\* last take.
C5_Witness ==
    \E u \in DOMAIN pending :
        /\ Len(pending[u]) = MAX_PENDING_MESSAGES_PER_USER
        /\ Len(QueuedIn(call.log, u, LastTake(call.log, u, Len(call.log)), Len(call.log)))
             > MAX_PENDING_MESSAGES_PER_USER

\* A queue_message step, seen in the log.
C6_QueueStep ==
    (Len(call'.log) = Len(call.log) + 1 /\ LastOf(call'.log).op = "queue") =>
        LET u   == LastOf(call'.log).user
            m   == LastOf(call'.log).msg
            old == QueueOf(pending, u)
            new == QueueOf(pending', u)
        IN  IF Len(old) < MAX_PENDING_MESSAGES_PER_USER
            THEN new = Append(old, m)
            ELSE /\ Len(new) = Len(old)
                 /\ new[Len(new)] = m
                 /\ \A i \in 1..Len(old) - 1 : new[i] = old[i + 1]

(* C6. Drop-oldest overflow: queue_message on a full queue removes the      *)
(* oldest entry and appends the message, keeping the order of the others;   *)
(* on a queue that is not full it only appends.                             *)
C6_DropOldest == [][C6_QueueStep]_vars

\* One more message than the capacity was queued with no take in between,
\* and a take then returned all but the first of them.
C6_Witness ==
    \E i \in DOMAIN call.log :
        /\ call.log[i].op = "take"
        /\ LET u == call.log[i].user
               q == QueuedIn(call.log, u, LastTake(call.log, u, i - 1), i)
           IN  /\ Len(q) = MAX_PENDING_MESSAGES_PER_USER + 1
               /\ call.log[i].ret = Tail(q)

\* Every take in the log returned the messages queued for its user since
\* that user's previous take (those overflow kept), in queueing order; right
\* after a take its user has no entry.
C7_History ==
    /\ \A i \in DOMAIN call.log :
         call.log[i].op = "take" =>
            call.log[i].ret =
               LastN(QueuedIn(call.log, call.log[i].user,
                              LastTake(call.log, call.log[i].user, i - 1), i),
                     MAX_PENDING_MESSAGES_PER_USER)
    /\ (call.log # <<>> /\ LastOf(call.log).op = "take")
          => PendingCount(pending, LastOf(call.log).user) = 0

\* A take step returns the whole queue of its user, removes the entry and
\* touches nothing else; with no entry it returns <<>> and changes nothing.
C7_TakeStep ==
    (Len(call'.log) = Len(call.log) + 1 /\ LastOf(call'.log).op = "take") =>
        LET u == LastOf(call'.log).user
        IN  /\ LastOf(call'.log).ret = QueueOf(pending, u)
            /\ u \notin DOMAIN pending'
            /\ OthersUnchanged(u)
            /\ UNCHANGED <<clients, chan, rx>>
            /\ u \notin DOMAIN pending => (LastOf(call'.log).ret = <<>> /\ pending' = pending)

(* C7. Queue then take: take(u) returns all of u's queued messages in the   *)
(* order they were queued and leaves no entry behind, so pendingCount(u) is *)
(* 0 afterwards and a take that follows it directly returns the empty list; *)
(* take on a user with no entry returns the empty list and changes nothing. *)
C7_QueueThenTake == []C7_History /\ [][C7_TakeStep]_vars

\* Two messages were queued, a take returned them, and the next take of the
\* same user returned nothing.
C7_Witness ==
    \E i \in DOMAIN call.log :
        /\ i > 1
        /\ call.log[i].op = "take" /\ call.log[i].ret = <<>>
        /\ call.log[i - 1].op = "take" /\ call.log[i - 1].user = call.log[i].user
        /\ Len(call.log[i - 1].ret) = 2

\* The entries of seq that are in the set, in seq's order.
Restrict(seq, set) == SelectSeq(seq, LAMBDA x : x \in set)

\* The entries the flush loop of s has gone through so far.
Flushed(s) == SubSeq(loc[s].taken, 1, loc[s].i - 1)

\* Position of x in a sequence without repetitions (0 if absent).
IndexIn(seq, x) ==
    IF x \in Range(seq) THEN CHOOSE i \in DOMAIN seq : seq[i] = x ELSE 0

(* C8. Drain on attach: every entry the session took from its user's queue  *)
(* and has gone through in the flush loop is in the session's own channel,  *)
(* in queue order, none discarded.                                          *)
C8_DrainOnAttach ==
    \A s \in Sessions : Restrict(chan[s], Range(Flushed(s))) = Flushed(s)

\* No frame routed by another session sits before a drained entry in the
\* channel of the session that drained it.
C9_DrainedFirst ==
    \A s \in Sessions :
        \A p, q \in DOMAIN chan[s] :
            (p < q /\ chan[s][q] \in Range(loc[s].taken))
                => (chan[s][p] \in Range(loc[s].taken) \/ ~ClientFrame(chan[s][p]))

(* C9 (as the code has it). The drained entries that are in the session's   *)
(* channel are in queue order, and they precede every frame pushed after    *)
(* the flush loop ended; a frame routed by another session between the      *)
(* registration and the end of the flush loop may sit before or among them. *)
C9_DrainedInOrder ==
    \A s \in Sessions :
        \A p, q \in DOMAIN chan[s] :
            LET taken == loc[s].taken
            IN  /\ (p < q /\ chan[s][p] \in Range(taken) /\ chan[s][q] \in Range(taken))
                      => IndexIn(taken, chan[s][p]) < IndexIn(taken, chan[s][q])
                /\ (chan[s][q] \in Range(taken) /\ pc[s] # "drain")
                      => q <= loc[s].drainEnd

\* A session in its read loop has drained two entries into its channel,
\* behind a frame that was pushed before the flush loop began.
C9_Witness ==
    \E s \in Sessions :
        /\ pc[s] = "steady"
        /\ Len(loc[s].taken) = 2
        /\ Restrict(chan[s], Range(loc[s].taken)) = loc[s].taken
        /\ Len(chan[s]) > 2

\* No session is inside a call on the shared state.
Quiet == \A s \in Sessions : pc[s] \in {"handshake", "steady", "closed"}

(* C10. Send-vs-queue race: a message does not remain in the offline queue  *)
(* of a user who has a live session: once every call has returned, a user   *)
(* with a registered session in its read loop has no queued message.        *)
C10_NoneStranded ==
    Quiet =>
        \A s \in Sessions :
            (pc[s] = "steady" /\ Attached(s)) => PendingCount(pending, loc[s].user) = 0

\* How many of the takes in the log returned m, and whether m is queued now.
TimesTaken(m) ==
    Cardinality({i \in DOMAIN call.log :
                    call.log[i].op = "take" /\ m \in Range(call.log[i].ret)})
TimesQueued(u, m) ==
    Cardinality({i \in DOMAIN QueueOf(pending, u) : pending[u][i] = m})

\* The first take(u) after log entry i (Len + 1 if there is none).
NextTake(log, u, i) ==
    LET later == {j \in DOMAIN log : j > i /\ log[j].op = "take" /\ log[j].user = u}
    IN  IF later = {} THEN Len(log) + 1 ELSE CHOOSE j \in later : \A k \in later : j <= k

\* The message queued by log entry i was pushed out by overflow: at least
\* capacity many messages were queued for its user before that user's next take.
Overflowed(log, i) ==
    Len(QueuedIn(log, log[i].user, i, NextTake(log, log[i].user, i) - 1))
        >= MAX_PENDING_MESSAGES_PER_USER

(* C11. Atomic take: under any interleaving of queue and take calls, every  *)
(* queued message that overflow did not drop was returned by exactly one    *)
(* take (of its own user) or is still in that user's queue, once; a message *)
(* overflow dropped is in neither.                                          *)
C11_AtomicTake ==
    \A i \in DOMAIN call.log :
        call.log[i].op = "queue" =>
            LET u == call.log[i].user
                m == call.log[i].msg
            IN  /\ TimesTaken(m) + TimesQueued(u, m) =
                      IF Overflowed(call.log, i) THEN 0 ELSE 1
                /\ \A v \in Users \ {u} : TimesQueued(v, m) = 0
                /\ \A j \in DOMAIN call.log :
                      (call.log[j].op = "take" /\ m \in Range(call.log[j].ret))
                         => call.log[j].user = u

\* Two takes of one user, each returning the one message queued just before
\* it, while a concurrent caller is between the directory check and the queue
\* push of a send_or_queue for that user.
C11_Witness ==
    \E u \in Users :
        /\ Len(call.log) = 4
        /\ \A i \in {1, 3} : call.log[i].op = "queue" /\ call.log[i].user = u
        /\ \A i \in {2, 4} : call.log[i].op = "take" /\ call.log[i].user = u
                                /\ call.log[i].ret = <<call.log[i - 1].msg>>
        /\ \E t \in Callers : call.inflight[t].op = "queue" /\ call.inflight[t].user = u

\* No remove_client call is between its two steps.
NoRemoveInProgress == \A s \in Sessions : pc[s] # "remove_entry"

(* C12. add is safe under concurrent sessions of one user: once every       *)
(* remove_client call has returned, every channel that was added and whose  *)
(* receiver is alive is in its user's Directory list.                       *)
C12_AddIsSafe ==
    NoRemoveInProgress => \A s \in Sessions : rx[s] = "open" => Attached(s)

\* No call on the shared state is in progress and every session in its read
\* loop still has its writer task.
Settled == Quiet /\ \A s \in Sessions : pc[s] = "steady" => rx[s] = "open"

(* C13. Online-ness is consistent: is_online(u) iff u is in online_users()  *)
(* iff the Directory holds at least one non-closed channel for u.           *)
C13_OnlineConsistent ==
    Settled =>
        \A u \in Users :
            /\ IsOnline(clients, u) <=> u \in OnlineUsers(clients)
            /\ IsOnline(clients, u) <=> OpenChannelsOf(u) # {}

(* C14. Departure cleanup: once a session has reached Closed, its channel   *)
(* is in no Directory list, and its user has no entry with an empty list.   *)
C14_DepartureCleanup ==
    \A s \in Sessions :
        pc[s] = "closed" =>
            /\ \A u \in DOMAIN clients : s \notin Range(clients[u])
            /\ loc[s].user \in DOMAIN clients => clients[loc[s].user] # <<>>

\* A remove_client step, seen in the log.
C15_RemoveStep ==
    (Len(call'.log) = Len(call.log) + 1 /\ LastOf(call'.log).op = "remove") =>
        LET u    == LastOf(call'.log).user
            old  == IF u \in DOMAIN clients THEN clients[u] ELSE <<>>
            live == SelectSeq(old, LAMBDA c : rx[c] = "open")
        IN  /\ IF live = <<>> THEN u \notin DOMAIN clients'
               ELSE u \in DOMAIN clients' /\ clients'[u] = live
            /\ \A v \in Users \ {u} :
                  /\ v \in DOMAIN clients' <=> v \in DOMAIN clients
                  /\ v \in DOMAIN clients => clients'[v] = clients[v]
            /\ IsOnline(clients', u) <=> live # <<>>
            /\ SendToUserSent(clients', rx', u) <=> live # <<>>
            /\ UNCHANGED <<chan, rx, pending>>

(* C15. remove(u), run with no concurrent operation, leaves in u's list     *)
(* exactly the non-closed channels in insertion order and deletes u's entry *)
(* iff none remains; u stays online and reachable iff a channel remains.    *)
C15_RemoveKeepsOpen == [][C15_RemoveStep]_vars

\* Two channels of one user: one was closed and removed, a send then reached
\* the other alone, which was closed and removed in turn, leaving no entry.
C15_Witness ==
    \E u \in Users, c, d \in Sessions :
        /\ c # d
        /\ Len(call.log) = 3
        /\ call.log[1] = LogEntry("remove", u, 0, <<>>)
        /\ call.log[2] = LogEntry("send", u, 1, TRUE)
        /\ call.log[3] = LogEntry("remove", u, 0, <<>>)
        /\ chan[c] = <<>> /\ chan[d] = <<1>>
        /\ rx[c] = "closed" /\ rx[d] = "closed"
        /\ u \notin DOMAIN clients
        /\ \A v \in Users \ {u} : v \notin DOMAIN clients

\* A Typing, Presence or ProfileUpdate frame that a client sent.
Ephemeral(text) == text.type \in BroadcastTypes /\ ClientFrame(text)

\* Session h is inside the broadcast call that routes frame f.
Broadcasting(h, f) ==
    /\ pc[h] = "broadcast"
    /\ loc[h].msg = f
    /\ handled[FrameNo(f)].session = h

\* No ephemeral frame is in any offline queue.
C16_NoneQueued == \A p \in Queued : p[2].type \notin BroadcastTypes

\* The handling of an ephemeral frame, and every push of its broadcast, leave
\* the queues alone; a copy is pushed only while the sender's broadcast call
\* runs, and only onto a channel that is in the Directory at that step.
C16_PushStep ==
    /\ (Len(handled') > Len(handled) /\ LastOf(handled').text.type \in BroadcastTypes)
          => (pending' = pending /\ chan' = chan)
    /\ \A c \in Sessions :
          (chan'[c] # chan[c] /\ Ephemeral(LastOf(chan'[c]))) =>
              /\ pending' = pending
              /\ Attached(c)
              /\ \E h \in Sessions : Broadcasting(h, LastOf(chan'[c]))

(* C16. Ephemeral frames are never queued: handling a Typing, Presence or   *)
(* ProfileUpdate frame leaves every offline queue unchanged, and the frame  *)
(* is pushed only onto channels that are in the Directory when the          *)
(* broadcast reaches them, so a session that registers after the call has   *)
(* returned never gets it.                                                  *)
C16_EphemeralNotQueued == []C16_NoneQueued /\ [][C16_PushStep]_vars

\* An ephemeral frame reached a registered session of another user; a session
\* of that user that registered after the broadcast had passed is in its read
\* loop, its channel open, without it, and nothing is queued.
C16_Witness ==
    \E k \in DOMAIN handled, c, s \in Sessions :
        /\ handled[k].text.type \in BroadcastTypes
        /\ c # s /\ loc[c].user = loc[s].user /\ loc[c].user # handled[k].user
        /\ \E i \in DOMAIN chan[c] : FrameNo(chan[c][i]) = k
        /\ pc[s] = "steady" /\ chan[s] # <<>> /\ rx[s] = "open" /\ ~loc[s].writerFailed
        /\ \A i \in DOMAIN chan[s] : FrameNo(chan[s][i]) # k
        /\ pending = <<>>

ReceiptTypes == {"delivery_receipt", "read_receipt"}

\* The receipt routed for an inbound receipt text handled for user u.
RoutedReceipt(text, u) ==
    IF text.type = "delivery_receipt" THEN [text EXCEPT !.delivered_to = u]
    ELSE [text EXCEPT !.user_id = u]

\* A receipt sits only with the user its sender_id names: in channels of that
\* user's sessions, in that user's queue, or in a list one of them took.
C17_OnlyToSender ==
    /\ \A p \in Pushed : p[2].type \in ReceiptTypes => loc[p[1]].user = p[2].sender_id
    /\ \A p \in Queued : p[2].type \in ReceiptTypes => p[1] = p[2].sender_id
    /\ \A s \in Sessions : \A i \in DOMAIN loc[s].taken :
          loc[s].taken[i].type \in ReceiptTypes => loc[s].user = loc[s].taken[i].sender_id

\* handle_message on a receipt: pushed onto the open channels of sender_id, or
\* else on its way to sender_id's queue.
C17_HandleStep ==
    (Len(handled') > Len(handled) /\ LastOf(handled').text.type \in ReceiptTypes) =>
        LET h    == LastOf(handled').session
            dest == LastOf(handled').text.sender_id
            out  == RoutedReceipt(LastOf(handled').text, LastOf(handled').user)
        IN  /\ pending' = pending
            /\ chan' = [c \in Sessions |->
                          IF c \in OpenChannelsOf(dest) THEN Append(chan[c], out) ELSE chan[c]]
            /\ IF OpenChannelsOf(dest) # {}
               THEN pc'[h] = "steady"
               ELSE pc'[h] = "queue" /\ loc'[h].msg = out /\ loc'[h].dest = dest

\* The queue_message that follows appends it to sender_id's queue; the next
\* take of a session of that user hands the whole queue to its flush loop.
C17_QueueStep ==
    \A h \in Sessions :
        /\ (pc[h] = "queue" /\ pc'[h] # "queue" /\ loc[h].msg.type \in ReceiptTypes) =>
              /\ chan' = chan
              /\ LastOf(QueueOf(pending', loc[h].msg.sender_id)) = loc[h].msg
              /\ OthersUnchanged(loc[h].msg.sender_id)
        /\ (pc[h] = "take" /\ pc'[h] # "take") =>
              /\ loc'[h].taken = QueueOf(pending, loc[h].user)
              /\ loc[h].user \notin DOMAIN pending'

WithIdentity(text, u) ==
    CASE text.type = "message" -> [text EXCEPT !.sender_id = u]
      [] text.type = "delivery_receipt" -> [text EXCEPT !.delivered_to = u]
      [] OTHER -> [text EXCEPT !.user_id = u]

\* The frames the relay authors.
RelayFrames == {OnlinePresence(u) : u \in Users} \cup {OfflinePresence(u) : u \in Users}

\* Whatever sits in a channel or a queue is a frame of the relay's own or an
\* inbound frame with nothing but its identity field replaced.
C18_OnlyIdentityChanged ==
    \A p \in Pushed \cup Queued :
        \/ p[2] \in RelayFrames
        \/ /\ ClientFrame(p[2])
           /\ p[2] = WithIdentity(handled[FrameNo(p[2])].text, handled[FrameNo(p[2])].user)

\* What handle_message pushes, or keeps for its queue_message or broadcast,
\* is the inbound frame with its identity field replaced.
C18_HandleStep ==
    Len(handled') > Len(handled) =>
        LET e   == LastOf(handled')
            out == WithIdentity(e.text, e.user)
        IN  /\ \A c \in Sessions : chan'[c] = chan[c] \/ chan'[c] = Append(chan[c], out)
            /\ IF pc'[e.session] = "steady"
               THEN \E c \in Sessions : chan'[c] # chan[c]
               ELSE loc'[e.session].msg = out

(* C18. The relay is content-agnostic: the frame routed for an inbound      *)
(* frame of a routed variant equals it in every field but the identity      *)
(* field, which holds the session's user; what is routed is the             *)
(* re-serialized envelope.                                                  *)
C18_ContentAgnostic == []C18_OnlyIdentityChanged /\ [][C18_HandleStep]_vars

\* A queued ChatMessage and its inbound text differ, in sender_id only.
C18_Witness ==
    \E p \in Queued :
        /\ p[2].type = "message"
        /\ ClientFrame(p[2])
        /\ p[2] # handled[FrameNo(p[2])].text
        /\ p[2].recipient_id = handled[FrameNo(p[2])].text.recipient_id

\* Session s is registered under some user.
Registered(s) == \E u \in DOMAIN clients : s \in Range(clients[u])

(* C19. In Handshake, a text frame that fails to parse, or parses to a      *)
(* variant other than Connect, closes the session: a Connect sent after it  *)
(* on the same connection does not authenticate.                            *)
C19_BadFrameCloses ==
    \A s \in Sessions : loc[s].skipped => (~loc[s].auth /\ ~Registered(s))

\* PULSE_ACCESS_TOKEN, as read for the Connect of s, was set and non-empty.
TokenRequired(l) == l.expected # None /\ l.expected # Some("")

\* The Connect of s was turned away.
Rejected(s) == loc[s].claimed # "" /\ ~loc[s].auth

\* A session whose Connect was turned away is closed and has left no trace:
\* no channel, no Directory entry, nothing taken, nothing to broadcast.
C20_NoTrace ==
    \A s \in Sessions :
        Rejected(s) =>
            /\ pc[s] = "closed"
            /\ rx[s] = "none" /\ chan[s] = <<>>
            /\ ~Registered(s)
            /\ loc[s].taken = <<>> /\ loc[s].todo = {} /\ loc[s].msg = NoText

\* The step that answers a Connect frame, and the steps after a rejection.
C20_ConnectStep ==
    \A s \in Sessions :
        /\ (pc[s] = "handshake" /\ loc'[s].claimed # "") =>
              IF TokenRequired(loc'[s]) /\ loc'[s].token # loc'[s].expected
              THEN /\ pc'[s] = "closed"
                   /\ ~loc'[s].auth
                   /\ UNCHANGED <<clients, chan, pending, rx>>
              ELSE /\ loc'[s].auth
                   /\ pc'[s] = "broadcast"
                   /\ loc'[s].user = loc'[s].claimed
                   /\ loc'[s].msg = OnlinePresence(loc'[s].claimed)
                   /\ rx'[s] = "open"
                   /\ loc'[s].claimed \in DOMAIN clients'
                   /\ s \in Range(clients'[loc'[s].claimed])
        /\ Rejected(s) => (pc'[s] = pc[s] /\ loc'[s] = loc[s])

C21_Step ==
    \A s \in Sessions :
        /\ (pc[s] = "handshake" /\ pc'[s] # "handshake") =>
              \/ loc'[s].auth /\ loc'[s].claimed # ""
              \/ pc'[s] = "closed" /\ ~loc'[s].auth /\ rx'[s] = "none"
        /\ (pc[s] = "closed" /\ ~loc[s].auth) =>
              /\ pc'[s] = "closed" /\ ~loc'[s].auth /\ rx'[s] = "none"
              /\ \A u \in DOMAIN clients' : s \notin Range(clients'[u])

(* C21. Authentication deadline: a session that has received no Connect     *)
(* when the 10-second timeout fires moves to Closed and is never registered *)
(* afterwards; with the timer running, every session eventually leaves      *)
(* Handshake, to Authenticated or to Closed.                                *)
C21_Deadline ==
    /\ [][C21_Step]_vars
    /\ \A s \in Sessions : <>(pc[s] # "handshake")

\* A session that sent only frames other than Connect was closed by the
\* timeout, unregistered, while another session authenticated and entered its
\* read loop.
C21_Witness ==
    \E s, a \in Sessions :
        /\ pc[s] = "closed" /\ loc[s].skipped /\ loc[s].claimed = "" /\ ~Registered(s)
        /\ loc[a].auth /\ pc[a] = "steady"

\* A channel exists, and is in the Directory, only for a session that
\* processed an accepted Connect; a session that did not is waiting or closed
\* and has nothing to broadcast.
C22_AuthenticatedOnly ==
    \A s \in Sessions :
        ~loc[s].auth =>
            /\ ~Registered(s)
            /\ rx[s] = "none" /\ chan[s] = <<>>
            /\ pc[s] \in {"handshake", "closed"}
            /\ loc[s].msg = NoText /\ loc[s].todo = {}

\* The step that closes a session in Handshake changes neither the Directory,
\* nor a queue, nor a channel.
C22_CloseStep ==
    \A s \in Sessions :
        (pc[s] = "handshake" /\ pc'[s] = "closed") => UNCHANGED <<clients, pending, chan, rx>>

(* C22. Only authenticated sessions are visible: a session's channel is in  *)
(* the Directory only if the session processed a valid Connect, and a       *)
(* session that closes while in Handshake changes neither the Directory nor *)
(* an offline queue and broadcasts no Presence, online or offline.          *)
C22_OnlyAuthenticatedVisible == []C22_AuthenticatedOnly /\ [][C22_CloseStep]_vars

\* A session closed in Handshake without having sent a frame, while another
\* session was registered and a message sat in an offline queue.
C22_Witness ==
    \E s, a \in Sessions :
        /\ pc[s] = "closed" /\ ~loc[s].auth /\ ~loc[s].skipped /\ loc[s].claimed = ""
        /\ Registered(a) /\ rx[a] = "open"
        /\ \E u \in Users : PendingCount(pending, u) > 0

(* C23. A Connect frame whose user_id is the empty string does not         *)
(* authenticate the session: no channel is registered in the Directory      *)
(* under the empty user id and no Presence frame with an empty user_id is   *)
(* broadcast.                                                               *)
C23_EmptyIdRefused ==
    /\ "" \notin DOMAIN clients
    /\ \A s \in Sessions : loc[s].auth => loc[s].user # ""
    /\ \A p \in Pushed : p[2].type = "presence" => p[2].user_id # ""

(* C24. AuthResponse comes first: after a successful Connect, the first     *)
(* frame written to the session's WebSocket is AuthResponse{success:true,   *)
(* message:"Connected to server"}; every Presence frame, drained queue      *)
(* entry or live frame routed to the session is written after it: what is   *)
(* written after it is the channel's frames, in the channel's order.        *)
C24_AuthResponseFirst ==
    \A s \in Sessions :
        LET wire == loc[s].wire
        IN  wire # <<>> =>
              /\ wire[1] = [type |-> "auth_response", success |-> TRUE,
                            message |-> "Connected to server"]
              /\ Len(wire) - 1 <= Len(chan[s])
              /\ \A i \in 2..Len(wire) :
                    /\ wire[i] = chan[s][i - 1]
                    /\ wire[i].type # "auth_response"

\* A socket on which the AuthResponse, a Presence frame and a ChatMessage
\* have been written, the ChatMessage having been pushed onto the channel
\* before the session's own attach sequence had finished.
C24_Witness ==
    \E s \in Sessions :
        /\ Len(loc[s].wire) >= 3
        /\ loc[s].wire[1].type = "auth_response"
        /\ \E i \in 2..Len(loc[s].wire) : loc[s].wire[i].type = "presence"
        /\ \E i \in 2..Len(loc[s].wire) :
              /\ loc[s].wire[i].type = "message"
              /\ i - 1 <= loc[s].drainEnd

\* The key a Broadcast step of session s visits.
Visited(s) == IF pc'[s] = "broadcast" THEN loc[s].todo \ loc'[s].todo ELSE loc[s].todo

\* The step that registers a session as u sets out a broadcast of
\* Presence{u, true, null} over every key of the Directory but u; each step
\* of that broadcast visits one key, other than u, and pushes the frame onto
\* every open channel the Directory holds under that key, and onto nothing
\* else; the broadcast ends when every key has been visited.
C25_AttachStep ==
    \A s \in Sessions :
        /\ (pc[s] = "handshake" /\ pc'[s] = "broadcast") =>
              LET u == loc'[s].user
              IN  /\ loc'[s].msg = [type |-> "presence", user_id |-> u,
                                    is_online |-> TRUE, last_seen |-> None]
                  /\ loc'[s].after = "roster"
                  /\ u \notin loc'[s].todo
                  /\ (DOMAIN clients' \ {u}) \subseteq loc'[s].todo
                  /\ chan' = chan
        /\ (pc[s] = "broadcast" /\ loc[s].after = "roster" /\ loc'[s] # loc[s]) =>
              LET u == loc[s].user
                  f == [type |-> "presence", user_id |-> u,
                        is_online |-> TRUE, last_seen |-> None]
              IN  /\ loc[s].msg = f
                  /\ Cardinality(Visited(s)) = 1
                  /\ u \notin Visited(s)
                  /\ \A c \in Sessions :
                        chan'[c] = IF \E k \in Visited(s) : c \in OpenChannelsOf(k)
                                   THEN Append(chan[c], f) ELSE chan[c]
                  /\ \A c \in OpenChannelsOf(u) : chan'[c] = chan[c]
                  /\ (pc'[s] = "broadcast") = (loc[s].todo \ Visited(s) # {})
                  /\ pc'[s] = "broadcast" =>
                        (loc'[s].msg = f /\ loc'[s].after = "roster"
                         /\ loc'[s].todo \subseteq loc[s].todo)

(* C25. Presence on attach: when a session authenticates as u,              *)
(* Presence{u, is_online:true, last_seen:null} is pushed onto every channel *)
(* of every other user that is in the Directory when the broadcast reaches  *)
(* it, and onto no channel registered under u.                              *)
C25_PresenceOnAttach == [][C25_AttachStep]_vars

\* Two sessions of one user were in their read loops when a session of
\* another user attached: both hold its Presence frame, and its own channel
\* does not.
C25_Witness ==
    \E s \in Sessions : \E a, b \in Before(s) :
        /\ a # b
        /\ loc[a].user = loc[b].user /\ loc[a].user # loc[s].user
        /\ pc[s] = "steady"
        /\ OnlinePresence(loc[s].user) \in Range(chan[a]) \cap Range(chan[b])
        /\ OnlinePresence(loc[s].user) \notin Range(chan[s])

\* A roster step of session s sends Presence{v, true, null}, v being an
\* online user other than the session's own, to the channel of s and to no
\* other channel.
C26_RosterStep ==
    \A s \in Sessions :
        (pc[s] = "roster_send" /\ loc'[s] # loc[s]) =>
            LET v == Head(loc[s].roster)
                f == [type |-> "presence", user_id |-> v,
                      is_online |-> TRUE, last_seen |-> None]
            IN  /\ v # loc[s].user
                /\ chan'[s] = chan[s] \/ chan'[s] = Append(chan[s], f)
                /\ \A c \in Sessions \ {s} : chan'[c] = chan[c]

(* C26. Initial roster: when a session authenticates as u, for each other   *)
(* user v online at the online_users() snapshot Presence{v, is_online:true, *)
(* last_seen:null} is sent to the newly authenticated session only: no      *)
(* other session, an already connected session of u included, receives it,  *)
(* and no roster frame names u itself.                                      *)
C26_InitialRoster == [][C26_RosterStep]_vars

\* The number of entries of q equal to f.
Count(q, f) == Cardinality({i \in DOMAIN q : q[i] = f})

\* A session leaves its read loop by remove_client alone; remove_client is
\* followed by the broadcast of Presence{u, false, last_seen} over every key
\* of the Directory, u included; each step of that broadcast pushes the frame
\* onto every open channel under the key it visits; the session is closed
\* when, and only when, that broadcast has visited every key, and does nothing
\* afterwards.
C27_DetachStep ==
    \A s \in Sessions :
        LET u == loc[s].user
        IN  /\ (pc[s] = "steady" /\ Leaving(s)') => (pc'[s] = "remove" /\ chan' = chan)
            /\ pc[s] = "remove" => pc'[s] \in {"remove", "remove_entry", "broadcast"}
            /\ pc[s] = "remove_entry" => pc'[s] \in {"remove_entry", "broadcast"}
            /\ (pc[s] \in {"remove", "remove_entry"} /\ pc'[s] = "broadcast") =>
                  /\ loc'[s].after = "closed"
                  /\ loc'[s].msg.type = "presence"
                  /\ loc'[s].msg.user_id = u
                  /\ loc'[s].msg.is_online = FALSE
                  /\ loc'[s].msg.last_seen # None
                  /\ DOMAIN clients' \subseteq loc'[s].todo
                  /\ chan' = chan
                  /\ \/ u \notin DOMAIN clients'
                     \/ \A c \in Range(clients'[u]) : rx[c] = "open"
            /\ (pc[s] = "broadcast" /\ loc[s].after = "closed" /\ loc'[s] # loc[s]) =>
                  /\ Cardinality(Visited(s)) = 1
                  /\ \A c \in Sessions :
                        chan'[c] = IF \E k \in Visited(s) : c \in OpenChannelsOf(k)
                                   THEN Append(chan[c], loc[s].msg) ELSE chan[c]
                  /\ (pc'[s] = "closed") = (loc[s].todo \ Visited(s) = {})
                  /\ pc'[s] # "closed" =>
                        (pc'[s] = "broadcast" /\ loc'[s].msg = loc[s].msg
                         /\ loc'[s].after = "closed" /\ loc'[s].todo \subseteq loc[s].todo)
            /\ (pc'[s] = "closed" /\ pc[s] # "closed") =>
                  (pc[s] = "broadcast" /\ loc[s].after = "closed")
            /\ pc[s] = "closed" => (pc'[s] = "closed" /\ loc'[s] = loc[s])

(* C27. Offline presence on detach: whenever a session authenticated as u   *)
(* reaches Closed, remove_client(u) is called first and then Presence{u,    *)
(* is_online:false, last_seen:<non-null time>} is broadcast, with no         *)
(* exception, to every channel in the Directory when the broadcast reaches  *)
(* it; this happens exactly once per closed authenticated session.          *)
C27_OfflineOnDetach == [][C27_DetachStep]_vars

\* A session of u is closed; a session of another user and a second session
\* of u, both still attached, each hold its offline Presence exactly once.
C27_Witness ==
    \E s, a, b \in Sessions :
        /\ pc[s] = "closed" /\ loc[s].auth
        /\ Attached(a) /\ loc[a].user # loc[s].user
        /\ b # s /\ Attached(b) /\ loc[b].user = loc[s].user
        /\ Count(chan[a], OfflinePresence(loc[s].user)) = 1
        /\ Count(chan[b], OfflinePresence(loc[s].user)) = 1

\* The types of the frames an authenticated session drops: a Connect, an
\* AuthResponse, an Error, and a text that is no WsMessage.
DroppedTypes == {"connect", "auth_response", "error", "no_such_type"}

\* A session in the Directory is there once, under the user it authenticated
\* as.
C28_RegisteredOnce ==
    \A s \in Sessions : \A u \in DOMAIN clients :
        /\ s \in Range(clients[u]) => u = loc[s].user
        /\ Cardinality({i \in DOMAIN clients[u] : clients[u][i] = s}) <= 1

\* The step that handles such a frame changes nothing but the log: not the
\* Directory, a channel, a queue, nor the session's place in its read loop or
\* its user id.
C28_DropStep ==
    (Len(handled') > Len(handled) /\ LastOf(handled').text.type \in DroppedTypes) =>
        /\ UNCHANGED <<clients, pending, chan, rx, pc, loc>>
        /\ pc[LastOf(handled').session] = "steady"
        /\ LastOf(handled').user = loc[LastOf(handled').session].user

(* C28. Frame-level errors are recoverable: in an authenticated session a   *)
(* text frame that fails to parse, has an unknown type, or is a Connect,    *)
(* AuthResponse or Error is dropped with no effect on the Directory, the    *)
(* channels and the queues; the session stays in its read loop under the    *)
(* same user id, a later Connect neither re-registers it nor changes its    *)
(* identity, and later valid frames are still routed.                       *)
C28_DropsAreHarmless == []C28_RegisteredOnce /\ [][C28_DropStep]_vars

\* A session dropped a Connect naming another user, then routed a
\* ChatMessage, which sits in a channel or a queue under the session's own
\* user id.
C28_Witness ==
    /\ Len(handled) = 2
    /\ handled[1].text.type = "connect"
    /\ handled[1].text.user_id # handled[1].user
    /\ handled[2].session = handled[1].session
    /\ \E p \in Pushed \cup Queued :
          /\ p[2].type = "message" /\ p[2].id = 2
          /\ p[2].sender_id = handled[1].user

\* Once a write of the writer task has failed nothing more is written to the
\* socket and the channel stays closed; the session is closed only at the
\* end of the offline broadcast that follows remove_client; a frame is
\* handled only by a session that is in its read loop.
C29_WriteErrorStep ==
    /\ \A s \in Sessions :
          /\ loc[s].writerFailed =>
                /\ loc'[s].writerFailed
                /\ loc'[s].wire = loc[s].wire
                /\ rx[s] = "closed" /\ rx'[s] = "closed"
          /\ (loc[s].writerFailed /\ pc[s] = "steady" /\ pc'[s] # "steady") =>
                \/ pc'[s] = "remove"
                \/ Len(handled') > Len(handled)
          /\ (pc'[s] = "closed" /\ pc[s] # "closed") =>
                /\ pc[s] = "broadcast" /\ loc[s].after = "closed"
                /\ loc[s].msg.type = "presence" /\ loc[s].msg.user_id = loc[s].user
                /\ ~loc[s].msg.is_online
    /\ Len(handled') > Len(handled) =>
          /\ pc[LastOf(handled').session] = "steady"
          /\ ~Leaving(LastOf(handled').session)

(* C29. A write error terminates the session: if the writer task's write    *)
(* of a frame to the session's WebSocket fails, the writer loop stops and   *)
(* the session eventually reaches Closed, through remove_client and the     *)
(* offline-presence broadcast; after that no inbound frame of the session   *)
(* is routed.                                                               *)
C29_WriteErrorTerminates ==
    /\ [][C29_WriteErrorStep]_vars
    /\ \A s \in Sessions : loc[s].writerFailed ~> (pc[s] = "closed")

\* A session whose writer had written frames before a write failed is
\* closed and out of the Directory; a session of another user, still
\* attached, holds its offline Presence.
C29_Witness ==
    \E s, a \in Sessions :
        /\ loc[s].writerFailed /\ pc[s] = "closed"
        /\ Len(loc[s].wire) >= 2
        /\ ~Registered(s)
        /\ Attached(a) /\ loc[a].user # loc[s].user
        /\ OfflinePresence(loc[s].user) \in Range(chan[a])

\* The channels a broadcast that excepts the users in ex pushes onto: the
\* open channels of every entry whose key is not in ex.
BroadcastTargets(ex) ==
    {c \in Sessions : \E u \in DOMAIN clients \ ex : c \in Range(clients[u]) /\ rx[c] = "open"}

\* A broadcast call appends its text once to each such channel, leaves every
\* other channel, the Directory and the queues as they were.
C30_BroadcastStep ==
    (Len(call'.log) > Len(call.log) /\ LastOf(call'.log).op = "broadcast") =>
        LET m  == LastOf(call'.log).msg
            ex == Range(LastOf(call'.log).ret)
        IN  /\ chan' = [c \in Sessions |->
                          IF c \in BroadcastTargets(ex) THEN Append(chan[c], m) ELSE chan[c]]
            /\ \A u \in ex : \A c \in OpenChannelsOf(u) : chan'[c] = chan[c]
            /\ \A c \in Sessions : Count(chan'[c], m) <= 1
            /\ UNCHANGED <<clients, pending, rx>>

(* C30. broadcast(text, except) pushes text exactly once onto every channel *)
(* of every Directory entry whose key differs from except (of every entry   *)
(* when except is absent) and onto no channel of the excepted user; a       *)
(* closed channel in an entry does not prevent delivery to the entry's      *)
(* other channels; the Directory and the offline queues are unchanged.      *)
C30_Broadcast == [][C30_BroadcastStep]_vars

\* A broadcast excepting one user reached the open channel of an entry whose
\* first channel was closed, and not the open channel of the excepted user,
\* while a message sat in a queue; a broadcast with no exception then reached
\* both.
C30_Witness ==
    \E i, j \in DOMAIN call.log : \E u, v \in DOMAIN clients : \E c, d \in Sessions :
        /\ i < j /\ u # v
        /\ call.log[i].op = "broadcast" /\ call.log[i].ret = Some(v)
        /\ call.log[j].op = "broadcast" /\ call.log[j].ret = None
        /\ Len(clients[u]) = 2 /\ rx[clients[u][1]] = "closed" /\ c = clients[u][2]
        /\ chan[clients[u][1]] = <<>>
        /\ d \in Range(clients[v])
        /\ chan[c] = <<call.log[i].msg, call.log[j].msg>>
        /\ chan[d] = <<call.log[j].msg>>
        /\ pending # <<>>

\* A send_to_user call appends its text to every open channel registered
\* under u and to no other channel, returns true iff there was one, and
\* changes neither the Directory nor a queue; a user with open channels is in
\* online_users().
C31_SendStep ==
    (Len(call'.log) > Len(call.log) /\ LastOf(call'.log).op = "send") =>
        LET u == LastOf(call'.log).user
            m == LastOf(call'.log).msg
        IN  /\ chan' = [c \in Sessions |->
                          IF c \in OpenChannelsOf(u) THEN Append(chan[c], m) ELSE chan[c]]
            /\ LastOf(call'.log).ret = (OpenChannelsOf(u) # {})
            /\ OpenChannelsOf(u) # {} => u \in OnlineUsers(clients)
            /\ UNCHANGED <<clients, pending, rx>>

(* C31. send_to_user(u, text) pushes text onto every non-closed channel     *)
(* registered under u, so two sessions of one user both receive it, and     *)
(* returns true iff at least one push succeeded; it returns false, pushing  *)
(* nothing, for a user with no Directory entry or with only closed          *)
(* channels.                                                                *)
C31_SendToUser == [][C31_SendStep]_vars

\* A send reached both channels of a user and returned true; after both
\* receivers were dropped a second send, the entry still there, returned
\* false and pushed nothing; a send to a user with no entry returned false.
C31_Witness ==
    \E u, v \in Users : \E i, j, k \in DOMAIN call.log :
        /\ i < j /\ u \in DOMAIN clients /\ v \notin DOMAIN clients
        /\ Len(clients[u]) = 2
        /\ call.log[i] = LogEntry("send", u, call.log[i].msg, TRUE)
        /\ call.log[j] = LogEntry("send", u, call.log[j].msg, FALSE)
        /\ call.log[k] = LogEntry("send", v, call.log[k].msg, FALSE)
        /\ \A c \in Range(clients[u]) : chan[c] = <<call.log[i].msg>> /\ rx[c] = "closed"

\* p is a prefix of q.
IsPrefix(p, q) == Len(p) <= Len(q) /\ p = SubSeq(q, 1, Len(p))

\* What the writer task of s wrote: the wire without the AuthResponse that
\* handle_connection wrote first.
WrittenByWriter(s) == IF loc[s].wire = <<>> THEN <<>> ELSE Tail(loc[s].wire)

\* The writer's frames are a prefix of the strings pushed onto the channel.
C32_WrittenIsPrefix == \A s \in Sessions : IsPrefix(WrittenByWriter(s), chan[s])

\* A step extends a channel at its end, by one string at most, and extends
\* what is written by one frame at most.
C32_FifoStep ==
    \A s \in Sessions :
        /\ IsPrefix(chan[s], chan'[s]) /\ Len(chan'[s]) <= Len(chan[s]) + 1
        /\ IsPrefix(loc[s].wire, loc'[s].wire)
        /\ Len(loc'[s].wire) <= Len(loc[s].wire) + 1

(* C32. Per-channel FIFO: for every session, the sequence of frames its     *)
(* writer loop writes to the WebSocket is a prefix of the sequence of       *)
(* strings pushed onto its outbound channel, in the same order: no frame is *)
(* reordered, duplicated or skipped, whatever the interleaving of the calls *)
(* that pushed them.                                                        *)
C32_PerChannelFifo == []C32_WrittenIsPrefix /\ [][C32_FifoStep]_vars

\* A writer has written two frames of different kinds, pushed by different
\* calls, and a third waits in the channel.
C32_Witness ==
    \E s \in Sessions :
        /\ Len(WrittenByWriter(s)) = 2
        /\ Len(chan[s]) >= 3
        /\ WrittenByWriter(s)[1].type # WrittenByWriter(s)[2].type
        /\ rx[s] = "open"

\* A completed queue_message or take_pending_messages for u leaves the
\* queue of every other user, its length, contents and order, as it was, and
\* the channels and the Directory too.
C33_QueueStep ==
    (Len(call'.log) > Len(call.log) /\ LastOf(call'.log).op \in {"queue", "take"}) =>
        LET u == LastOf(call'.log).user
        IN  /\ \A v \in Users \ {u} :
                  /\ PendingCount(pending', v) = PendingCount(pending, v)
                  /\ TakePendingMessages(pending', v) = TakePendingMessages(pending, v)
                  /\ v \in DOMAIN pending' <=> v \in DOMAIN pending
            /\ UNCHANGED <<clients, chan, rx>>

(* C33. Offline queues are isolated per user: queue_message(u, .) and       *)
(* take_pending_messages(u) change only u's queue; for every other user v,  *)
(* pending_count(v) and the contents and order of v's queue are unchanged.  *)
C33_QueuesIsolated == [][C33_QueueStep]_vars

\* Two messages were queued for v, then one for u, which a take for u
\* returned: v's queue holds its two messages in the order they were queued.
C33_Witness ==
    \E u, v \in Users :
        /\ u # v
        /\ Len(call.log) = 4
        /\ \A i \in {1, 2} : call.log[i].op = "queue" /\ call.log[i].user = v
        /\ call.log[3].op = "queue" /\ call.log[3].user = u
        /\ call.log[4].op = "take" /\ call.log[4].user = u
        /\ call.log[4].ret = <<call.log[3].msg>>
        /\ TakePendingMessages(pending, v) = <<call.log[1].msg, call.log[2].msg>>
        /\ PendingCount(pending, u) = 0


(* ------------------------- envelope round trip ------------------------- *)

\* Round trips one run performs.
MaxRoundTrips == 2

\* Well-formed envelopes, one or more of every variant.
Envelopes ==
    { [variant |-> "ChatMessage", id |-> 1, sender_id |-> a, recipient_id |-> b] :
        a \in Users, b \in Users }
    \cup { [variant |-> "Typing", chat_id |-> 1, user_id |-> a] : a \in Users }
    \cup { [variant |-> "Presence", user_id |-> a, is_online |-> o, last_seen |-> t] :
             a \in Users, o \in BOOLEAN, t \in {None, Some(1)} }
    \cup { [variant |-> "DeliveryReceipt", message_id |-> 1, sender_id |-> a,
            delivered_to |-> b] : a \in Users, b \in Users }
    \cup { [variant |-> "ReadReceipt", chat_id |-> 1, sender_id |-> a, user_id |-> b] :
             a \in Users, b \in Users }
    \cup { [variant |-> "ProfileUpdate", user_id |-> a, name |-> 1, phone |-> p] :
             a \in Users, p \in {None, Some("555")} }
    \cup { [variant |-> v, call_id |-> 1, from_user_id |-> a, to_user_id |-> b] :
             v \in DOMAIN CallTagOf, a \in Users, b \in Users }
    \cup { [variant |-> "Connect", user_id |-> a] : a \in Users }
    \cup { [variant |-> "AuthResponse", success |-> o] : o \in BOOLEAN }
    \cup { [variant |-> "Error"] }

\* Texts whose tag names no variant (tags are matched exactly).
UnknownTagTexts ==
    { [type |-> "no_such_type"], [type |-> "Message"], [type |-> ""],
      [type |-> "call_cancel", call_id |-> 1, from_user_id |-> "u1", to_user_id |-> "u2"] }

\* "let json = serde_json::to_string(&msg).unwrap();
\*  let parsed: WsMessage = serde_json::from_str(&json)"
Roundtrip(msg) ==
    /\ Len(handled) < MaxRoundTrips
    /\ LET json == ToJson(msg)
       IN  handled' = Append(handled, [op |-> "roundtrip", msg |-> msg, text |-> json,
                                       parsed |-> FromStr(json)])
    /\ UNCHANGED <<clients, pending, chan, rx, pc, loc, call, client>>

\* serde_json::from_str::<WsMessage>(&text) on a text a peer wrote.
Parse(text) ==
    /\ Len(handled) < MaxRoundTrips
    /\ handled' = Append(handled, [op |-> "parse", msg |-> ParseError, text |-> text,
                                   parsed |-> FromStr(text)])
    /\ UNCHANGED <<clients, pending, chan, rx, pc, loc, call, client>>

NextCodec ==
    \/ \E msg \in Envelopes : Roundtrip(msg)
    \/ \E text \in UnknownTagTexts : Parse(text)

SpecCodec == Init /\ [][NextCodec]_vars

MaxStarts == 2

DEFAULT_PORT == 9001
U16Max == 65535

\* Texts are sequences of characters.
Digits == <<"0", "1", "2", "3", "4", "5", "6", "7", "8", "9">>
DigitValue(c) == (CHOOSE i \in DOMAIN Digits : Digits[i] = c) - 1

\* The digit loop of u16::from_str: checked_mul(10) then checked_add(digit).
RECURSIVE ParseDigits(_, _)
ParseDigits(ds, acc) ==
    IF ds = <<>> THEN Some(acc)
    ELSE IF Head(ds) \notin Range(Digits) THEN None
    ELSE LET v == acc * 10 + DigitValue(Head(ds))
         IN  IF v > U16Max THEN None ELSE ParseDigits(Tail(ds), v)

\* p.parse::<u16>().ok(): an empty text or a lone sign fails, one leading
\* "+" is skipped, a "-" is no digit of an unsigned type.
ParseU16(src) ==
    IF src = <<>> THEN None
    ELSE IF Len(src) = 1 /\ src[1] \in {"+", "-"} THEN None
    ELSE ParseDigits(IF src[1] = "+" THEN Tail(src) ELSE src, 0)

\* Display of a u16.
RECURSIVE Decimal(_)
Decimal(n) ==
    IF n < 10 THEN <<Digits[n + 1]>>
    ELSE Decimal(n \div 10) \o <<Digits[(n % 10) + 1]>>

AnyHost == <<"0", ".", "0", ".", "0", ".", "0", ":">>

\* An environment variable as std::env::var sees it: not present, or present
\* with a value that is valid Unicode or not.
Unset == [set |-> FALSE, unicode |-> FALSE, value |-> <<>>]
Var(text) == [set |-> TRUE, unicode |-> TRUE, value |-> text]
NotUnicode(text) == [set |-> TRUE, unicode |-> FALSE, value |-> text]

\* std::env::var(name): Err(NotPresent), Err(NotUnicode(_)) or Ok(value).
EnvVar(v) == IF v.set /\ v.unicode THEN Some(v.value) ELSE None

AddrVars ==
    { Unset, Var(<<>>), Var(<<"[", ":", ":", "1", "]", ":", "8", "0">>),
      Var(<<"1", "2", "7", ".", "0", ".", "0", ".", "1", ":", "9", "0", "0", "0">>),
      NotUnicode(<<"1", "2", "7", ".", "0", ".", "0", ".", "1", ":", "8", "0", "?">>) }

PortVars ==
    { Unset, Var(<<>>), Var(<<"0">>), Var(<<"8", "0", "8", "0">>),
      Var(<<"6", "5", "5", "3", "5">>), Var(<<"6", "5", "5", "3", "6">>),
      Var(<<"7", "0", "0", "0", "0">>), Var(<<"0", "0", "8", "0">>), Var(<<"+", "8", "0">>),
      Var(<<"-", "1">>), Var(<<"+">>), Var(<<" ", "8", "0">>), Var(<<"8", "0", "a">>),
      NotUnicode(<<"8", "0", "?">>) }

\* "Get bind address: PULSE_SERVER_ADDR takes priority, then PORT (Railway),
\* then default"
BindAddr(addrVar, portVar) ==
    IF EnvVar(addrVar) # None THEN EnvVar(addrVar)[1]
    ELSE LET p == IF EnvVar(portVar) = None THEN None ELSE ParseU16(EnvVar(portVar)[1])
             port == IF p = None THEN DEFAULT_PORT ELSE p[1]
         IN  AnyHost \o Decimal(port)

\* main, up to TcpListener::bind(&addr).
Main(addrVar, portVar) ==
    /\ Len(handled) < MaxStarts
    /\ handled' = Append(handled, [op |-> "main", PULSE_SERVER_ADDR |-> addrVar,
                                   PORT |-> portVar, addr |-> BindAddr(addrVar, portVar)])
    /\ UNCHANGED <<clients, pending, chan, rx, pc, loc, call, client>>

NextMain == \E addrVar \in AddrVars, portVar \in PortVars : Main(addrVar, portVar)

SpecMain == Init /\ [][NextMain]_vars

\* What the statement gives for a start whose PULSE_SERVER_ADDR is not set.
PortFallback(e) ==
    IF e.PORT.set /\ ParseU16(e.PORT.value) # None
    THEN e.addr = AnyHost \o Decimal(ParseU16(e.PORT.value)[1])
    ELSE e.addr = AnyHost \o <<"9", "0", "0", "1">>

(***************************************************************************)
(* C35.  Bind address selection: the listener binds to the value of        *)
(* PULSE_SERVER_ADDR when that variable is set; otherwise to 0.0.0.0:PORT  *)
(* when PORT parses as a 16-bit unsigned integer; otherwise (PORT unset or *)
(* not a valid u16) to 0.0.0.0:9001.                                       *)
(***************************************************************************)
C35_BindAddress ==
    \A i \in DOMAIN handled :
        LET e == handled[i]
        IN  IF e.PULSE_SERVER_ADDR.set THEN e.addr = e.PULSE_SERVER_ADDR.value
            ELSE PortFallback(e)

\* The same, with a PULSE_SERVER_ADDR whose value is not valid Unicode
\* counted as not set.
C35_BindAddressUnicode ==
    \A i \in DOMAIN handled :
        LET e == handled[i]
        IN  IF e.PULSE_SERVER_ADDR.set /\ e.PULSE_SERVER_ADDR.unicode
            THEN e.addr = e.PULSE_SERVER_ADDR.value
            ELSE PortFallback(e)

\* Starts that took the address from PULSE_SERVER_ADDR and from a PORT with
\* a leading "+".
C35_Witness ==
    /\ \E i \in DOMAIN handled :
          /\ handled[i].PULSE_SERVER_ADDR = Var(<<>>)
          /\ handled[i].addr = <<>>
    /\ \E i \in DOMAIN handled :
          /\ ~handled[i].PULSE_SERVER_ADDR.set
          /\ handled[i].PORT = Var(<<"+", "8", "0">>)
          /\ handled[i].addr = AnyHost \o <<"8", "0">>


\* The variants handle_message hands to send_or_queue.
SendOrQueueTypes == {"message", "delivery_receipt", "read_receipt"}

(***************************************************************************)
(* C36.  At-most-once delivery per session: whatever the interleaving of   *)
(* handle_message, connect and disconnect steps, a routed frame (one       *)
(* ChatMessage or receipt accepted from a sender) is pushed onto the       *)
(* outbound channel of any one session at most once, whether it travelled  *)
(* live or through the offline queue.                                      *)
(***************************************************************************)
C36_AtMostOnce ==
    \A c \in Sessions :
        \A i \in DOMAIN chan[c], j \in DOMAIN chan[c] :
            (chan[c][i].type \in SendOrQueueTypes /\ chan[c][i] = chan[c][j]) => i = j

\* A frame that a session took from the offline queue and flushed sits once
\* on the channel of each of the two sessions of its recipient.
C36_Witness ==
    \E s \in Sessions, c \in Sessions :
        /\ c # s
        /\ loc[s].taken # <<>>
        /\ loc[s].i > Len(loc[s].taken)
        /\ loc[s].taken[1].type \in SendOrQueueTypes
        /\ Count(chan[s], loc[s].taken[1]) = 1
        /\ Count(chan[c], loc[s].taken[1]) = 1


\* Session s starts, in this step, the broadcast of its offline Presence
\* (connection.rs 140-147).
AnnouncesOffline(s) ==
    /\ pc'[s] = "broadcast"
    /\ loc'[s].after = "closed"
    /\ ~(pc[s] = "broadcast" /\ loc[s].after = "closed")

\* Another session is registered under u with its channel open and has not
\* left its read loop.
OtherLiveSession(s, u) ==
    \E c \in Sessions \ {s} :
        /\ u \in DOMAIN clients'
        /\ c \in Range(clients'[u])
        /\ rx'[c] = "open"
        /\ ~Leaving(c)

C37_OfflineStep ==
    \A s \in Sessions :
        AnnouncesOffline(s) =>
            /\ ~IsOnline(clients', loc'[s].user)
            /\ ~OtherLiveSession(s, loc'[s].user)

(***************************************************************************)
(* C37.  Offline presence is truthful: at the moment Presence{u,           *)
(* is_online:false} is broadcast for a closing session of u, isOnline(u)   *)
(* is false, and offline presence is never announced for a user who still  *)
(* has another live registered session.                                    *)
(***************************************************************************)
C37_OfflineTruthful == [][C37_OfflineStep]_vars

\* The second half alone.
C37_NoOtherLiveSession ==
    [][\A s \in Sessions : AnnouncesOffline(s) => ~OtherLiveSession(s, loc'[s].user)]_vars


CallTypes == DOMAIN CallVariantOf

\* The channels registered under u when the frame is handled that can take it.
RegisteredOpen(u) ==
    IF u \in DOMAIN clients THEN {c \in Range(clients[u]) : rx[c] = "open"} ELSE {}

\* No offline queue ever holds a call-signalling frame.
C38_NeverQueued ==
    \A u \in DOMAIN pending :
        \A i \in DOMAIN pending[u] : pending[u][i].type \notin CallTypes

\* A step in which handle_message takes a call-signalling frame: the frame,
\* with from_user_id set to the session's user, is appended to the channels
\* registered under to_user_id and to no other; the queues are untouched and
\* the session goes on to its next frame.
C38_CallStep ==
    (Len(handled') = Len(handled) + 1 /\ handled'[Len(handled')].text.type \in CallTypes) =>
        LET h    == handled'[Len(handled')]
            safe == [h.text EXCEPT !.from_user_id = h.user]
        IN  /\ \A c \in Sessions :
                  chan'[c] = IF c \in RegisteredOpen(h.text.to_user_id)
                             THEN Append(chan[c], safe) ELSE chan[c]
            /\ pending' = pending
            /\ pc' = pc
            /\ clients' = clients

(***************************************************************************)
(* C38.  Call signalling is never queued: a CallInvite, CallRinging,       *)
(* CallAccept, CallReject, CallHangup, RtcOffer, RtcAnswer or              *)
(* RtcIceCandidate frame handled for a session authenticated as s has its  *)
(* from_user_id overwritten with s and is pushed only onto the channels    *)
(* currently registered under its to_user_id; if that user is offline the  *)
(* frame is discarded and every offline queue is unchanged.                *)
(***************************************************************************)
C38_CallSignalling == []C38_NeverQueued /\ [][C38_CallStep]_vars

\* With a ChatMessage waiting in the queue of an offline user, a call frame
\* for that user that claimed another sender was handled and discarded.
C38_Witness ==
    /\ Len(handled) = 2
    /\ handled[2].text.type \in CallTypes
    /\ handled[2].text.from_user_id # handled[2].user
    /\ handled[2].text.to_user_id \notin DOMAIN clients
    /\ handled[2].text.to_user_id \in DOMAIN pending
    /\ \A c \in Sessions : \A i \in DOMAIN chan[c] : chan[c][i].type \notin CallTypes
    /\ \A s \in Sessions : pc[s] # "queue"


(* --------------------- the desktop client's connection ------------------ *)

\* Calls of WebSocketClient::disconnect one run makes.
MaxDisconnects == 2

\* shutdown_tx.send(()) on the broadcast channel of capacity 1: a value sent
\* while another is unread overwrites it, and the receiver has lagged.
ShutdownSend(sd) == IF sd = "empty" THEN "one" ELSE "lagged"

\* What a recv or try_recv leaves: a value is consumed; a lagged receiver is
\* told Err(Lagged) and moved to the value still held.
ShutdownTaken(sd) == IF sd = "lagged" THEN "one" ELSE "empty"

\* "shutdown_rx.try_recv().is_ok()"
TryRecvIsOk(sd) == sd = "one"

ClientRunning == client.pc \notin {"idle", "stopped"}

\* WebSocketClient::connect: subscribe to the shutdown channel and spawn the
\* loop (client.rs 74-81).
ClientConnect ==
    /\ client.pc = "idle"
    /\ client' = [client EXCEPT !.pc = "top", !.shutdown = "empty"]
    /\ UNCHANGED <<clients, pending, chan, rx, pc, loc, handled, call>>

\* "Check for shutdown before attempting connection" (client.rs 83-91).
LoopTop ==
    /\ client.pc = "top"
    /\ client' = IF TryRecvIsOk(client.shutdown)
                 THEN [client EXCEPT !.pc = "stopped",
                                     !.shutdown = ShutdownTaken(client.shutdown)]
                 ELSE [client EXCEPT !.pc = "connecting",
                                     !.shutdown = ShutdownTaken(client.shutdown),
                                     !.reconnected = @ \/ client.calledIn # ""]
    /\ UNCHANGED <<clients, pending, chan, rx, pc, loc, handled, call>>

\* connect_async returns Ok: "*connected.lock().await = true" (client.rs 92-96).
ClientConnectOk ==
    /\ client.pc = "connecting"
    /\ client' = [client EXCEPT !.pc = "send_connect", !.connected = TRUE, !.link = "up"]
    /\ UNCHANGED <<clients, pending, chan, rx, pc, loc, handled, call>>

\* connect_async returns Err (client.rs 204-211).
ClientConnectErr ==
    /\ client.pc = "connecting"
    /\ client' = [client EXCEPT !.pc = "sleep"]
    /\ UNCHANGED <<clients, pending, chan, rx, pc, loc, handled, call>>

\* The connection to the server breaks, or the server closes it.
LinkLost ==
    /\ client.link = "up"
    /\ client' = [client EXCEPT !.link = "lost", !.dropped = @ \/ client.calledIn # ""]
    /\ UNCHANGED <<clients, pending, chan, rx, pc, loc, handled, call>>

\* The Connect frame is written, or the write fails (client.rs 98-109).
SendConnect ==
    /\ client.pc = "send_connect"
    /\ client' = IF client.link = "up"
                 THEN [client EXCEPT !.pc = "auth_wait"]
                 ELSE [client EXCEPT !.pc = "sleep", !.connected = FALSE, !.link = "none"]
    /\ UNCHANGED <<clients, pending, chan, rx, pc, loc, handled, call>>

\* "Wait for auth response": a refusal ends the attempt; a success, any other
\* frame or the end of the stream leads on to the message loop, for which the
\* write channel is created and stored in write_tx (client.rs 111-140).
AuthWait ==
    /\ client.pc = "auth_wait"
    /\ \E success \in IF client.link = "up" THEN BOOLEAN ELSE {TRUE} :
         client' = IF success
                   THEN [client EXCEPT !.pc = "loop", !.write_tx = TRUE, !.wq = <<>>,
                                       !.should_reconnect = TRUE]
                   ELSE [client EXCEPT !.pc = "sleep", !.connected = FALSE,
                                       !.link = "none",
                                       !.dropped = @ \/ client.calledIn # ""]
    /\ UNCHANGED <<clients, pending, chan, rx, pc, loc, handled, call>>

\* select! takes "_ = shutdown_rx.recv()": whatever recv returned, a close
\* frame is written (a failure is only logged) (client.rs 143-152).
LoopShutdown ==
    /\ client.pc = "loop"
    /\ client.shutdown # "empty"
    /\ client' = [client EXCEPT !.pc = "cleanup", !.should_reconnect = FALSE,
                                !.shutdown = ShutdownTaken(client.shutdown),
                                !.close_frame = @ \/ client.link = "up"]
    /\ UNCHANGED <<clients, pending, chan, rx, pc, loc, handled, call>>

\* select! takes "Some(msg) = rx.recv()" with a WriteMessage::Close
\* (client.rs 154-171).
LoopWrite ==
    /\ client.pc = "loop"
    /\ client.wq # <<>>
    /\ client' = [client EXCEPT !.pc = "cleanup", !.should_reconnect = FALSE,
                                !.wq = Tail(@),
                                !.close_frame = @ \/ client.link = "up"]
    /\ UNCHANGED <<clients, pending, chan, rx, pc, loc, handled, call>>

\* select! takes "msg = ws_read.next()" with a Close frame, the end of the
\* stream or an error (client.rs 173-188).
LoopRead ==
    /\ client.pc = "loop"
    /\ client.link = "lost"
    /\ client' = [client EXCEPT !.pc = "cleanup"]
    /\ UNCHANGED <<clients, pending, chan, rx, pc, loc, handled, call>>

\* "Cleanup": write_tx is cleared (client.rs 192-196) ...
ClientCleanup ==
    /\ client.pc = "cleanup"
    /\ client' = [client EXCEPT !.pc = "cleanup_connected", !.write_tx = FALSE, !.wq = <<>>]
    /\ UNCHANGED <<clients, pending, chan, rx, pc, loc, handled, call>>

\* ... then connected, and the loop ends or goes on to the retry delay
\* (client.rs 197-211).
ClientCleanupConnected ==
    /\ client.pc = "cleanup_connected"
    /\ client' = [client EXCEPT !.connected = FALSE, !.link = "none",
                                !.pc = IF client.should_reconnect THEN "sleep" ELSE "stopped"]
    /\ UNCHANGED <<clients, pending, chan, rx, pc, loc, handled, call>>

\* The 3 seconds of tokio::time::sleep have passed.
RetryDelay ==
    /\ client.pc = "sleep"
    /\ client' = [client EXCEPT !.pc = "top"]
    /\ UNCHANGED <<clients, pending, chan, rx, pc, loc, handled, call>>

\* WebSocketClient::disconnect, first half: "let _ = self.shutdown_tx.send(())".
Disconnect ==
    /\ client.disconnects < MaxDisconnects
    /\ LET first == client.calledIn = "" /\ ClientRunning
       IN  client' = [client EXCEPT
                        !.disconnects = @ + 1,
                        !.closing = @ + 1,
                        !.shutdown = IF ClientRunning THEN ShutdownSend(@) ELSE @,
                        !.calledIn = IF first THEN client.pc ELSE @,
                        !.connectedAtCall =
                            IF first THEN client.pc = "loop" /\ client.link = "up" ELSE @]
    /\ UNCHANGED <<clients, pending, chan, rx, pc, loc, handled, call>>

\* ... second half: "if let Some(tx) = guard.as_ref() { tx.send(WriteMessage::Close) }".
DisconnectClose ==
    /\ client.closing > 0
    /\ client' = [client EXCEPT !.closing = @ - 1,
                                !.wq = IF client.write_tx THEN Append(@, "Close") ELSE @]
    /\ UNCHANGED <<clients, pending, chan, rx, pc, loc, handled, call>>

\* The steps of the spawned loop and of a disconnect() under way.
ClientStep ==
    \/ LoopTop
    \/ ClientConnectOk
    \/ ClientConnectErr
    \/ SendConnect
    \/ AuthWait
    \/ LoopShutdown
    \/ LoopWrite
    \/ LoopRead
    \/ ClientCleanup
    \/ ClientCleanupConnected
    \/ RetryDelay
    \/ DisconnectClose

NextClient ==
    \/ ClientConnect
    \/ LinkLost
    \/ Disconnect
    \/ ClientStep

SpecClient == Init /\ [][NextClient]_vars

\* Every await of the loop completes, select! takes a branch that is ready,
\* and a disconnect() that began returns.
SpecClientFair == SpecClient /\ WF_vars(ClientStep)


\* disconnect() was called while the loop was running; the loop has stopped.
C39_Stops == (client.calledIn # "") ~> (client.pc = "stopped")

\* The stopped loop holds no session: write_tx is None, connected is false.
C39_NothingOpen ==
    client.pc = "stopped" => ~client.connected /\ ~client.write_tx /\ client.link = "none"

\* Called on a connected client whose connection stayed up, the loop wrote a
\* close frame before it stopped.
C39_CloseFrame ==
    (client.pc = "stopped" /\ client.connectedAtCall /\ ~client.dropped)
        => client.close_frame

\* Called on a connected client, the loop starts no connection afterwards.
C39_NoReconnect == client.connectedAtCall => ~client.reconnected

\* Without a disconnect the loop that waits out the delay connects again.
C39_Retries ==
    (client.pc = "sleep" /\ client.disconnects = 0)
        ~> (client.pc = "connecting" \/ client.disconnects > 0)

(***************************************************************************)
(* C39.  Desktop client shutdown: after WebSocketClient::disconnect() is   *)
(* called on a client whose connect loop is running (connected,            *)
(* connecting, or waiting to retry), the loop eventually stops without     *)
(* keeping a new session open: if connected it sends a close frame, clears *)
(* write_tx and sets connected to false, and it never reconnects           *)
(* afterwards; without a disconnect, a lost connection is retried after    *)
(* the 3-second delay indefinitely.                                        *)
(***************************************************************************)
C39_ClientShutdown ==
    /\ C39_Stops
    /\ []C39_NothingOpen
    /\ []C39_CloseFrame
    /\ []C39_NoReconnect
    /\ C39_Retries

====
